---- MODULE Spec2Model ----
(***************************************************************************)
(* A model of the pystdf binary codec (src/pystdf/IO.py), of its record    *)
(* schemas (src/pystdf/V4.py, src/pystdf/Types.py) and of the two stream   *)
(* consumers, Parser and Reader (src/pystdf/Parse.py).                     *)
(*                                                                         *)
(* Bytes are the integers 0..255, a buffer or a stream is a sequence of    *)
(* bytes.  Python indices are kept 0-based as in the source; a buffer      *)
(* position p is the element p+1 of the sequence.                          *)
(*                                                                         *)
(* IO.py binds each field as (name, fmt, missing, index, arrayFmt,         *)
(* arrayNdx, itemNdx), the seven attributes V4.registerMe gives a field;   *)
(* the model binds those attributes by name.  Integers are TLC integers:   *)
(* the streams the model draws keep every four-byte integer below 2^31.    *)
(***************************************************************************)
EXTENDS Integers, Sequences, FiniteSets, TLC

\* ------------------------------------------------------------------------
\* Python values.  Every value is a record of the same shape, so that any
\* two values can be compared: t is the Python type, i an integer, s the
\* bytes of a str, the items of a tuple of integers or the IEEE bytes of a
\* float (most significant first), l the items of a list, n the flag
\* field's name of a (flagField, mask) pair.
\* ------------------------------------------------------------------------
None == [t |-> "none", i |-> 0, s |-> <<>>, l |-> <<>>, n |-> ""]

PyInt(v) == [t |-> "int", i |-> v, s |-> <<>>, l |-> <<>>, n |-> ""]

PyFloat(ieee) == [t |-> "float", i |-> 0, s |-> ieee, l |-> <<>>, n |-> ""]

PyStr(bytes) == [t |-> "str", i |-> 0, s |-> bytes, l |-> <<>>, n |-> ""]

PyTuple(items) == [t |-> "tuple", i |-> 0, s |-> items, l |-> <<>>, n |-> ""]

PyList(items) == [t |-> "list", i |-> 0, s |-> <<>>, l |-> items, n |-> ""]

FlagPair(flagField, mask) == [t |-> "pair", i |-> mask, s |-> <<>>, l |-> <<>>, n |-> flagField]

\* ------------------------------------------------------------------------
\* struct: byte order and the fixed-width formats
\* ------------------------------------------------------------------------
RECURSIVE Reverse(_)
Reverse(q) == IF q = <<>> THEN <<>> ELSE Reverse(Tail(q)) \o <<Head(q)>>

RECURSIVE BytesToInt(_, _)
\* the unsigned integer the bytes bs hold under byte order e ("<" or ">")
BytesToInt(bs, e) ==
    IF bs = <<>> THEN 0
    ELSE IF e = "<" THEN Head(bs) + 256 * BytesToInt(Tail(bs), e)
         ELSE 256 * BytesToInt(SubSeq(bs, 1, Len(bs) - 1), e) + bs[Len(bs)]

RECURSIVE IntToBytes(_, _, _)
\* the size bytes of the unsigned integer v under byte order e
IntToBytes(v, size, e) ==
    IF size = 0 THEN <<>>
    ELSE IF e = "<" THEN <<v % 256>> \o IntToBytes(v \div 256, size - 1, e)
         ELSE IntToBytes(v \div 256, size - 1, e) \o <<v % 256>>

\* the bytes of buf at Python positions [from, from + n), cut at the end
\* a value bound to a name once, as an assignment to a local binds it
Let(x, F(_)) == F(x)

Slice(buf, from, n) ==
    SubSeq(buf, from + 1, IF from + n > Len(buf) THEN Len(buf) ELSE from + n)

\* calcsize of the struct format of an STDF scalar format
calcsize(fmt) ==
    CASE fmt \in {"C1", "B1", "U1", "I1"} -> 1
      [] fmt \in {"U2", "I2"} -> 2
      [] fmt \in {"U4", "I4", "R4"} -> 4
      [] fmt \in {"U8", "I8", "R8"} -> 8

stdf2struct == {"C1", "B1", "U1", "U2", "U4", "U8", "I1", "I2", "I4", "I8", "R4", "R8"}

\* Struct(e + fmt).unpack of exactly calcsize(fmt) bytes
StructUnpack(bs, fmt, e) ==
    CASE fmt = "C1" -> PyStr(bs)
      [] fmt \in {"R4", "R8"} -> PyFloat(IF e = "<" THEN Reverse(bs) ELSE bs)
      [] fmt \in {"I1", "I2", "I4", "I8"} ->
            LET be  == IF e = "<" THEN Reverse(bs) ELSE bs
                top == IF be[1] >= 128 THEN be[1] - 256 ELSE be[1]
            IN  PyInt(top * (256 ^ (Len(bs) - 1)) + BytesToInt(Tail(be), ">"))
      [] OTHER -> PyInt(BytesToInt(bs, e))

\* whether Struct(e + fmt).pack accepts the value (struct.error otherwise)
StructAccepts(val, fmt) ==
    CASE fmt = "C1" -> val.t = "str" /\ Len(val.s) = 1
      [] fmt = "R4" -> val.t = "float" /\ Len(val.s) = 4
      [] fmt = "R8" -> val.t = "float" /\ Len(val.s) = 8
      [] fmt \in {"B1", "U1"} -> val.t = "int" /\ val.i >= 0 /\ val.i <= 255
      [] fmt = "U2" -> val.t = "int" /\ val.i >= 0 /\ val.i <= 65535
      [] fmt \in {"U4", "U8"} -> val.t = "int" /\ val.i >= 0
      [] fmt = "I1" -> val.t = "int" /\ val.i >= -128 /\ val.i <= 127
      [] fmt = "I2" -> val.t = "int" /\ val.i >= -32768 /\ val.i <= 32767
      [] OTHER -> val.t = "int"

\* Struct(e + fmt).pack of an accepted value
StructPack(val, fmt, e) ==
    CASE fmt = "C1" -> val.s
      [] fmt \in {"R4", "R8"} -> IF e = "<" THEN Reverse(val.s) ELSE val.s
      [] fmt \in {"I1", "I2", "I4", "I8"} ->
            LET n   == calcsize(fmt)
                top == (val.i \div (256 ^ (n - 1))) % 256
                low == val.i % (256 ^ (n - 1))
                be  == <<top>> \o IntToBytes(low, n - 1, ">")
            IN  IF e = "<" THEN Reverse(be) ELSE be
      [] OTHER -> IntToBytes(val.i, calcsize(fmt), e)

\* ------------------------------------------------------------------------
\* Readers.  A reader returns [err, val, off]: err is "" or the exception
\* the Python call raises, off the offset after the field.  tbl is the
\* byte order the stdf2unpack table holds, host the byte order of the
\* machine (struct's "@", which a format without prefix means too).
\* ------------------------------------------------------------------------
Read(val, off) == [err |-> "", val |-> val, off |-> off]

ReadError(exc, off) == [err |-> exc, val |-> None, off |-> off]

readField(buf, offset, stdfFmt, tbl) ==
    IF stdfFmt \notin stdf2struct THEN ReadError("KeyError", offset)
    ELSE LET size == calcsize(stdfFmt)
         IN  IF offset + size > Len(buf) THEN ReadError("struct.error", offset)
             ELSE Read(StructUnpack(Slice(buf, offset, size), stdfFmt, tbl), offset + size)

readCn(buf, offset) ==
    IF offset + 1 > Len(buf) THEN ReadError("struct.error", offset)
    ELSE LET size == buf[offset + 1]
         IN  IF size = 0 THEN Read(PyStr(<<>>), offset + 1)
             ELSE IF offset + 1 + size > Len(buf) THEN ReadError("struct.error", offset)
             ELSE Read(PyStr(Slice(buf, offset + 1, size)), offset + 1 + size)

readSn(buf, offset, host) ==
    IF offset + 2 > Len(buf) THEN ReadError("struct.error", offset)
    ELSE LET size == BytesToInt(Slice(buf, offset, 2), host)
         IN  IF size = 0 THEN Read(PyStr(<<>>), offset + 2)
             ELSE IF offset + 2 + size > Len(buf) THEN ReadError("struct.error", offset)
             ELSE Read(PyStr(Slice(buf, offset + 2, size)), offset + 2 + size)

readBn(buf, offset) ==
    IF offset + 1 > Len(buf) THEN ReadError("struct.error", offset)
    ELSE LET size == buf[offset + 1]
         IN  IF offset + 1 + size > Len(buf) THEN ReadError("struct.error", offset)
             ELSE Read(PyTuple(Slice(buf, offset + 1, size)), offset + 1 + size)

readDn(buf, offset, host) ==
    IF offset + 2 > Len(buf) THEN ReadError("struct.error", offset)
    ELSE LET bits == BytesToInt(Slice(buf, offset, 2), host)
             size == (bits \div 8) + (IF bits % 8 > 0 THEN 1 ELSE 0)
         IN  IF offset + 2 + size > Len(buf) THEN ReadError("struct.error", offset)
             ELSE Read(PyTuple(Slice(buf, offset + 2, size)), offset + 2 + size)

\* unpackMap[fmt](buf, offset, fmt)
unpackMap(buf, offset, fmt, tbl, host) ==
    CASE fmt = "Cn" -> readCn(buf, offset)
      [] fmt = "Sn" -> readSn(buf, offset, host)
      [] fmt = "Bn" -> readBn(buf, offset)
      [] fmt = "Dn" -> readDn(buf, offset, host)
      [] OTHER -> readField(buf, offset, fmt, tbl)

RECURSIVE ReadItems(_, _, _, _, _, _, _)
\* the loop of readArray: todo more items of arrayFmt from offset
ReadItems(buf, offset, todo, arrayFmt, tbl, host, arr) ==
    IF todo = 0 THEN [err |-> "", arr |-> arr, off |-> offset]
    ELSE Let(unpackMap(buf, offset, arrayFmt, tbl, host), LAMBDA r :
             IF r.err # "" THEN [err |-> r.err, arr |-> arr, off |-> offset]
             ELSE ReadItems(buf, r.off, todo - 1, arrayFmt, tbl, host, Append(arr, r.val)))

readArray(buf, offset, arrayCnt, arrayFmt, tbl, host) ==
    Let(ReadItems(buf, offset, arrayCnt, arrayFmt, tbl, host, <<>>), LAMBDA r :
        IF r.err # "" THEN ReadError(r.err, offset) ELSE Read(PyList(r.arr), r.off))

RECURSIVE ReadNibbles(_, _, _, _, _, _)
\* the loop of readNibbleArray: todo more bytes, each the low then the high nibble
ReadNibbles(buf, offset, todo, arrayCnt, tbl, arr) ==
    IF todo = 0 THEN [err |-> "", arr |-> arr, off |-> offset]
    ELSE Let(readField(buf, offset, "U1", tbl), LAMBDA r :
             IF r.err # "" THEN [err |-> r.err, arr |-> arr, off |-> offset]
             ELSE ReadNibbles(buf, r.off, todo - 1, arrayCnt, tbl,
                      IF Len(arr) + 1 < arrayCnt
                      THEN arr \o <<PyInt(r.val.i % 16), PyInt(r.val.i \div 16)>>
                      ELSE Append(arr, PyInt(r.val.i % 16))))

readNibbleArray(buf, offset, arrayCnt, tbl) ==
    Let(ReadNibbles(buf, offset, (arrayCnt \div 2) + (arrayCnt % 2), arrayCnt, tbl, <<>>),
        LAMBDA r :
            IF r.err # "" THEN ReadError(r.err, offset) ELSE Read(PyList(r.arr), r.off))

\* ------------------------------------------------------------------------
\* Record schemas (V4.py) and record instances (Types.RecordType)
\* ------------------------------------------------------------------------
RECURSIVE BitAnd(_, _)
BitAnd(a, b) ==
    IF a = 0 \/ b = 0 THEN 0
    ELSE (IF a % 2 = 1 /\ b % 2 = 1 THEN 1 ELSE 0) + 2 * BitAnd(a \div 2, b \div 2)

RECURSIVE BitOr(_, _)
BitOr(a, b) ==
    IF a = 0 THEN b
    ELSE IF b = 0 THEN a
    ELSE (IF a % 2 = 1 \/ b % 2 = 1 THEN 1 ELSE 0) + 2 * BitOr(a \div 2, b \div 2)

RECURSIVE BitXor(_, _)
BitXor(a, b) ==
    IF a = 0 THEN b
    ELSE IF b = 0 THEN a
    ELSE (IF (a % 2) # (b % 2) THEN 1 ELSE 0) + 2 * BitXor(a \div 2, b \div 2)

B7 == 127
B6 == 191
B5 == 223
B4 == 239
B3 == 247
B2 == 251
B1 == 253
B0 == 254
BN == 255

\* RecordType.arrayMatch on the array formats of the modelled records:
\* k<ndx><fmt> is <<ndx, fmt>>
arrayMatch(fmt) ==
    CASE fmt = "k2U2" -> <<2, "U2">>
      [] fmt = "k5N1" -> <<5, "N1">>
      [] fmt = "k6R4" -> <<6, "R4">>
      [] fmt = "k5U2" -> <<5, "U2">>
      [] fmt = "k0Cn" -> <<0, "Cn">>
      [] fmt = "k0U2" -> <<0, "U2">>
      [] fmt = "k0U1" -> <<0, "U1">>
      [] OTHER -> <<-1, "">>

\* The attributes RecordType.field gives a (name, fmt, missing) entry of a fieldMap
Field(name, fmt, missing) ==
    [name |-> name, format |-> fmt, missing |-> missing,
     arrayFmt |-> arrayMatch(fmt)[2], arrayNdx |-> arrayMatch(fmt)[1]]

FarFieldMap ==
    << Field("CPU_TYPE", "U1", None),
       Field("STDF_VER", "U1", None) >>

MrrFieldMap ==
    << Field("FINISH_T", "U4", None),
       Field("DISP_COD", "C1", PyStr(<<32>>)),
       Field("USR_DESC", "Cn", PyStr(<<>>)),
       Field("EXC_DESC", "Cn", PyStr(<<>>)) >>

PgrFieldMap ==
    << Field("GRP_INDX", "U2", None),
       Field("GRP_NAM", "Cn", PyStr(<<>>)),
       Field("INDX_CNT", "U2", None),
       Field("PMR_INDX", "k2U2", PyList(<<>>)) >>

PlrFieldMap ==
    << Field("GRP_CNT", "U2", None),
       Field("GRP_INDX", "k0U2", None),
       Field("GRP_MODE", "k0U2", PyInt(0)),
       Field("GRP_RADX", "k0U1", PyInt(0)),
       Field("PGM_CHAR", "k0Cn", PyList(<<>>)),
       Field("RTN_CHAR", "k0Cn", PyList(<<>>)),
       Field("PGM_CHAL", "k0Cn", PyList(<<>>)),
       Field("RTN_CHAL", "k0Cn", PyList(<<>>)) >>

CnrFieldMap ==
    << Field("CHN_NUM", "U2", None),
       Field("BIT_POS", "U4", None),
       Field("CELL_NAM", "Sn", None) >>

PirFieldMap ==
    << Field("HEAD_NUM", "U1", None),
       Field("SITE_NUM", "U1", None) >>

PtrFieldMap ==
    << Field("TEST_NUM", "U4", None),
       Field("HEAD_NUM", "U1", None),
       Field("SITE_NUM", "U1", None),
       Field("TEST_FLG", "B1", PyInt(BN)),
       Field("PARM_FLG", "B1", None),
       Field("RESULT", "R4", FlagPair("TEST_FLG", B1)),
       Field("TEST_TXT", "Cn", PyStr(<<>>)),
       Field("ALARM_ID", "Cn", PyStr(<<>>)),
       Field("OPT_FLAG", "B1", PyInt(BN)),
       Field("RES_SCAL", "I1", FlagPair("OPT_FLAG", B0)),
       Field("LLM_SCAL", "I1", FlagPair("OPT_FLAG", BitAnd(B4, B6))),
       Field("HLM_SCAL", "I1", FlagPair("OPT_FLAG", BitAnd(B5, B7))),
       Field("LO_LIMIT", "R4", FlagPair("OPT_FLAG", BitAnd(B4, B6))),
       Field("HI_LIMIT", "R4", FlagPair("OPT_FLAG", BitAnd(B5, B7))),
       Field("UNITS", "Cn", PyStr(<<>>)),
       Field("C_RESFMT", "Cn", PyStr(<<>>)),
       Field("C_LLMFMT", "Cn", PyStr(<<>>)),
       Field("C_HLMFMT", "Cn", PyStr(<<>>)),
       Field("LO_SPEC", "R4", FlagPair("OPT_FLAG", B2)),
       Field("HI_SPEC", "R4", FlagPair("OPT_FLAG", B3)) >>

MprFieldMap ==
    << Field("TEST_NUM", "U4", None),
       Field("HEAD_NUM", "U1", None),
       Field("SITE_NUM", "U1", None),
       Field("TEST_FLG", "B1", None),
       Field("PARM_FLG", "B1", None),
       Field("RTN_ICNT", "U2", PyInt(0)),
       Field("RSLT_CNT", "U2", PyInt(0)),
       Field("RTN_STAT", "k5N1", PyList(<<>>)),
       Field("RTN_RSLT", "k6R4", PyList(<<>>)),
       Field("TEST_TXT", "Cn", PyStr(<<>>)),
       Field("ALARM_ID", "Cn", PyStr(<<>>)),
       Field("OPT_FLAG", "B1", PyInt(BN)),
       Field("RES_SCAL", "I1", FlagPair("OPT_FLAG", B0)),
       Field("LLM_SCAL", "I1", FlagPair("OPT_FLAG", BitOr(B4, B6))),
       Field("HLM_SCAL", "I1", FlagPair("OPT_FLAG", BitOr(B5, B7))),
       Field("LO_LIMIT", "R4", FlagPair("OPT_FLAG", BitOr(B4, B6))),
       Field("HI_LIMIT", "R4", FlagPair("OPT_FLAG", BitOr(B5, B7))),
       Field("START_IN", "R4", FlagPair("OPT_FLAG", B1)),
       Field("INCR_IN", "R4", FlagPair("OPT_FLAG", B1)),
       Field("RTN_INDX", "k5U2", PyStr(<<>>)),
       Field("UNITS", "Cn", PyStr(<<>>)),
       Field("UNITS_IN", "Cn", PyStr(<<>>)),
       Field("C_RESFMT", "Cn", PyStr(<<>>)),
       Field("C_LLMFMT", "Cn", PyStr(<<>>)),
       Field("C_HLMFMT", "Cn", PyStr(<<>>)),
       Field("LO_SPEC", "R4", FlagPair("OPT_FLAG", B2)),
       Field("HI_SPEC", "R4", FlagPair("OPT_FLAG", B3)) >>

EpsFieldMap == << >>

GdrFieldMap ==
    << Field("GEN_DATA", "Vn", None) >>

\* The record classes registerMe has put in the registrar
RecordClasses ==
    { [name |-> "Far", typ |-> 0, sub |-> 10, fieldMap |-> FarFieldMap],
      [name |-> "Mrr", typ |-> 1, sub |-> 20, fieldMap |-> MrrFieldMap],
      [name |-> "Pgr", typ |-> 1, sub |-> 62, fieldMap |-> PgrFieldMap],
      [name |-> "Plr", typ |-> 1, sub |-> 63, fieldMap |-> PlrFieldMap],
      [name |-> "Cnr", typ |-> 1, sub |-> 92, fieldMap |-> CnrFieldMap],
      [name |-> "Pir", typ |-> 5, sub |-> 10, fieldMap |-> PirFieldMap],
      [name |-> "Ptr", typ |-> 15, sub |-> 10, fieldMap |-> PtrFieldMap],
      [name |-> "Mpr", typ |-> 15, sub |-> 15, fieldMap |-> MprFieldMap],
      [name |-> "Eps", typ |-> 20, sub |-> 20, fieldMap |-> EpsFieldMap],
      [name |-> "Gdr", typ |-> 50, sub |-> 10, fieldMap |-> GdrFieldMap] }

\* RecordRegistrar.has_key((typ, sub))
\* the (typ, sub) keys of RecordRegistrar once V4 is imported: every record
\* class of V4.py registers itself
RegisteredKeys ==
    { <<0, 10>>, <<0, 20>>, <<0, 30>>,
      <<1, 10>>, <<1, 20>>, <<1, 30>>, <<1, 40>>, <<1, 50>>, <<1, 60>>, <<1, 62>>,
      <<1, 63>>, <<1, 70>>, <<1, 80>>, <<1, 90>>, <<1, 91>>, <<1, 92>>, <<1, 93>>,
      <<1, 94>>,
      <<2, 10>>, <<2, 20>>, <<2, 30>>,
      <<5, 10>>, <<5, 20>>,
      <<10, 30>>,
      <<15, 10>>, <<15, 15>>, <<15, 20>>, <<15, 30>>,
      <<20, 10>>, <<20, 20>>,
      <<50, 10>>, <<50, 30>> }

has_key(typ, sub) == <<typ, sub>> \in RegisteredKeys

\* RecordRegistrar[(typ, sub)]
RecordRegistrar(typ, sub) == CHOOSE c \in RecordClasses : c.typ = typ /\ c.sub = sub

\* RecordType.__init__ after the buffer is read: every value None
RecordType(cls, length, offset, buffer) ==
    [name |-> cls.name, typ |-> cls.typ, sub |-> cls.sub, fieldMap |-> cls.fieldMap,
     values |-> [k \in 1..Len(cls.fieldMap) |-> None],
     buffer |-> buffer, offset |-> offset, len |-> length, original |-> <<>>]

\* UnknownRecord(typ, sub): no field, no buffer
UnknownRecord(typ, sub) ==
    [name |-> "UnknownRecord", typ |-> typ, sub |-> sub, fieldMap |-> << >>,
     values |-> << >>, buffer |-> << >>, offset |-> 0, len |-> 0, original |-> <<>>]

\* recordByType(typ, sub)
recordByType(typ, sub) ==
    IF has_key(typ, sub)
    THEN RecordType(RecordRegistrar(typ, sub), 0, 0, << >>)
    ELSE UnknownRecord(typ, sub)

\* record.field(name).index, 0-based
IndexOf(fieldMap, name) ==
    (CHOOSE k \in 1..Len(fieldMap) : fieldMap[k].name = name) - 1

\* ------------------------------------------------------------------------
\* The generic data record: readVn
\* ------------------------------------------------------------------------
\* vnReadMap: the format of a GEN_DATA type code, "B0" (the pad) for a code
\* that is not in the map
vnReadMap(fldType) ==
    CASE fldType = 1 -> "U1"
      [] fldType = 2 -> "U2"
      [] fldType = 3 -> "U4"
      [] fldType = 4 -> "I1"
      [] fldType = 5 -> "I2"
      [] fldType = 6 -> "I4"
      [] fldType = 7 -> "R4"
      [] fldType = 8 -> "R8"
      [] fldType = 10 -> "Cn"
      [] fldType = 11 -> "Bn"
      [] fldType = 12 -> "Dn"
      [] fldType = 13 -> "N1"
      [] OTHER -> "B0"

\* the most slots of a generic data record the model draws
MaxSlots == 6

GEN_DATA_(i) == "GEN_DATA__" \o ToString(i)

\* the entry of fm that readVn leaves None
NoField == [name |-> "", format |-> "", missing |-> None, arrayFmt |-> "", arrayNdx |-> -1]

\* fieldReader(buf, offset, fmt) of readVn: the reader vnReadMap names, or
\* the pad's, which steps over one byte of the buffer
fieldReader(buf, offset, fmt, tbl, host) ==
    CASE fmt = "B0" -> Read(None, offset + 1)
      [] fmt = "N1" -> readField(buf, offset, "U1", tbl)
      [] OTHER -> unpackMap(buf, offset, fmt, tbl, host)

RECURSIVE ReadVnSlots(_, _, _, _, _, _, _)
\* the loop of readVn from slot i on; st holds offset, fm, vn, original and
\* reads, the number of parser.inp.read(1) calls the pads have made
ReadVnSlots(buf, i, vln, verify, tbl, host, st) ==
    IF i = vln THEN st
    ELSE Let(readField(buf, st.offset, "B1", tbl), LAMBDA t :
         IF t.err # "" THEN [st EXCEPT !.err = t.err]
         ELSE Let(vnReadMap(t.val.i), LAMBDA fmt :
              Let(fieldReader(buf, t.off, fmt, tbl, host), LAMBDA r :
                  IF r.err # "" THEN [st EXCEPT !.err = r.err]
                  ELSE IF fmt = "B0"
                  THEN ReadVnSlots(buf, i + 1, vln, verify, tbl, host,
                          [st EXCEPT !.offset = r.off,
                                     !.reads = @ + 1,
                                     !.fm = Append(@, NoField),
                                     !.vn = Append(@, PyInt(vln))])
                  ELSE ReadVnSlots(buf, i + 1, vln, verify, tbl, host,
                          [st EXCEPT !.offset = r.off,
                                     !.fm = Append(@, Field(GEN_DATA_(i), fmt, None)),
                                     !.vn = Append(@, r.val),
                                     !.original = IF verify
                                         THEN Append(@, [name |-> GEN_DATA_(i),
                                                         off |-> st.offset,
                                                         len |-> r.off - st.offset])
                                         ELSE @]))))

\* readVn(record, verify): [err, reads, record].  setFieldMap raises
\* TypeError on an entry of fm that is None.
readVn(record, verify, tbl, host) ==
    Let(readField(record.buffer, 0, "U2", tbl), LAMBDA c :
        IF c.err # "" THEN [err |-> c.err, reads |-> 0, record |-> record]
        ELSE Let(ReadVnSlots(record.buffer, 0, c.val.i, verify, tbl, host,
                     [err |-> "", offset |-> c.off, reads |-> 0,
                      fm |-> <<Field("FLD_CNT", "U2", None)>>,
                      vn |-> <<PyInt(c.val.i)>>,
                      original |-> IF verify
                                   THEN <<[name |-> "FLD_CNT", off |-> 0, len |-> 2]>>
                                   ELSE << >>]),
                 LAMBDA st :
                     IF st.err # "" THEN [err |-> st.err, reads |-> st.reads, record |-> record]
                     ELSE IF \E k \in 1..Len(st.fm) : st.fm[k] = NoField
                     THEN [err |-> "TypeError", reads |-> st.reads,
                           record |-> [record EXCEPT !.fieldMap = st.fm]]
                     ELSE [err |-> "", reads |-> st.reads,
                           record |-> [record EXCEPT !.fieldMap = st.fm, !.values = st.vn,
                                                     !.original = st.original]]))

\* ------------------------------------------------------------------------
\* decodeValues
\* ------------------------------------------------------------------------
\* the formats with fmt[-1] in 'nf'
EndsInNF(fmt) == fmt \in {"Cn", "Sn", "Bn", "Dn", "Vn", "Cf", "Uf"}

\* one field of decodeValues that is read from the buffer at oft
DecodeRead(buf, oft, f, vals, tbl, host) ==
    IF f.arrayFmt # ""
    THEN IF f.arrayFmt = "N1"
         THEN readNibbleArray(buf, oft, vals[f.arrayNdx + 1].i, tbl)
         ELSE readArray(buf, oft, vals[f.arrayNdx + 1].i, f.arrayFmt, tbl, host)
    ELSE IF f.format = "Cn" THEN readCn(buf, oft)
    ELSE IF EndsInNF(f.format) THEN unpackMap(buf, oft, f.format, tbl, host)
    ELSE readField(buf, oft, f.format, tbl)

RECURSIVE DecodeFields(_, _, _, _, _, _)
\* the loop of decodeValues from field k (1-based) of fields on
DecodeFields(fields, k, verify, tbl, host, st) ==
    IF k > Len(fields) \/ st.err # "" \/ st.printed THEN st
    ELSE IF st.oft >= Len(st.record.buffer)
    THEN DecodeFields(fields, k + 1, verify, tbl, host,
             [st EXCEPT !.record.values[k] = fields[k].missing])
    ELSE IF fields[k].format = "Vn"
    THEN Let(readVn(st.record, verify, tbl, host), LAMBDA v :
             IF v.err = "struct.error"
             THEN [st EXCEPT !.printed = TRUE, !.reads = @ + v.reads]
             ELSE DecodeFields(fields, k + 1, verify, tbl, host,
                      [st EXCEPT !.record = v.record, !.err = v.err,
                                 !.reads = @ + v.reads]))
    ELSE Let(DecodeRead(st.record.buffer, st.oft, fields[k], st.record.values, tbl, host),
             LAMBDA r :
                 IF r.err = "struct.error" THEN [st EXCEPT !.printed = TRUE]
                 ELSE IF r.err # "" THEN [st EXCEPT !.err = r.err]
                 ELSE DecodeFields(fields, k + 1, verify, tbl, host,
                          [st EXCEPT !.record.values[k] = r.val,
                                     !.oft = r.off,
                                     !.record.original = IF verify
                                         THEN Append(@, [name |-> fields[k].name,
                                                         off |-> st.oft,
                                                         len |-> r.off - st.oft])
                                         ELSE @]))

\* decodeValues(record, verify): [record, err, printed, reads, oft].  err is
\* the exception that leaves decodeValues ("" for none), printed whether a
\* struct.error was caught and printed, reads the bytes asked of parser.inp.
decodeValues(record, verify, tbl, host) ==
    DecodeFields(record.fieldMap, 1, verify, tbl, host,
        [record |-> record, err |-> "", printed |-> FALSE, reads |-> 0, oft |-> 0])

\* ------------------------------------------------------------------------
\* Packers.  A packer returns [err, bytes]: err is "" or the exception the
\* Python call raises (every packer turns a failure into
\* EndOfRecordException).
\* ------------------------------------------------------------------------
Packed(bytes) == [err |-> "", bytes |-> bytes]

PackError == [err |-> "EndOfRecordException", bytes |-> << >>]

RECURSIVE Concat(_)
\* ''.join(seq)
Concat(seq) == IF seq = << >> THEN << >> ELSE Head(seq) \o Concat(Tail(seq))

\* len(value) is defined
HasLen(value) == value.t \in {"str", "tuple", "list", "pair"}

\* len(value)
PyLen(value) ==
    CASE value.t \in {"str", "tuple"} -> Len(value.s)
      [] value.t = "list" -> Len(value.l)
      [] value.t = "pair" -> 2
      [] OTHER -> 0

\* the items of a value, as values
Items(value) ==
    CASE value.t = "list" -> value.l
      [] value.t = "tuple" -> [k \in 1..Len(value.s) |-> PyInt(value.s[k])]
      [] value.t = "str" -> [k \in 1..Len(value.s) |-> PyStr(<<value.s[k]>>)]
      [] value.t = "pair" -> <<PyStr(<<>>), PyInt(value.i)>>
      [] OTHER -> << >>

packField(value, stdfFmt, tbl) ==
    IF stdfFmt \in stdf2struct /\ StructAccepts(value, stdfFmt)
    THEN Packed(StructPack(value, stdfFmt, tbl))
    ELSE PackError

packCn(value) ==
    IF value.t = "str" /\ Len(value.s) <= 255
    THEN Packed(<<Len(value.s)>> \o value.s)
    ELSE PackError

packSn(value, host) ==
    IF value.t = "str" /\ Len(value.s) <= 65535
    THEN Packed(IntToBytes(Len(value.s), 2, host) \o value.s)
    ELSE PackError

\* every item of the value is an integer that fits a byte
ByteItems(value) ==
    /\ HasLen(value)
    /\ \A k \in 1..PyLen(value) :
          Items(value)[k].t = "int" /\ Items(value)[k].i \in 0..255

packBn(value) ==
    IF ByteItems(value) /\ PyLen(value) <= 255
    THEN Packed(<<PyLen(value)>> \o [k \in 1..PyLen(value) |-> Items(value)[k].i])
    ELSE PackError

packDn(value, host) ==
    IF ByteItems(value) /\ PyLen(value) * 8 <= 65535
    THEN Packed(IntToBytes(PyLen(value) * 8, 2, host)
                \o [k \in 1..PyLen(value) |-> Items(value)[k].i])
    ELSE PackError

\* vnPackMap[stdfFmt][0], the type code, -1 for a format that is no key
vnPackMap(stdfFmt) ==
    CASE stdfFmt \in {"B0", "U1"} -> 1
      [] stdfFmt = "U2" -> 2
      [] stdfFmt = "U4" -> 3
      [] stdfFmt = "I1" -> 4
      [] stdfFmt = "I2" -> 5
      [] stdfFmt = "I4" -> 6
      [] stdfFmt = "R4" -> 7
      [] stdfFmt = "R8" -> 8
      [] stdfFmt = "Cn" -> 10
      [] stdfFmt = "Bn" -> 11
      [] stdfFmt = "Dn" -> 12
      [] stdfFmt = "N1" -> 13
      [] OTHER -> -1

\* vnPackMap[stdfFmt][1](value, fmt), the packer of the data of a slot
vnPacker(value, stdfFmt, tbl, host) ==
    CASE stdfFmt \in {"B0", "N1"} -> packField(value, "U1", tbl)
      [] stdfFmt = "Cn" -> packCn(value)
      [] stdfFmt = "Bn" -> packBn(value)
      [] stdfFmt = "Dn" -> packDn(value, host)
      [] OTHER -> packField(value, stdfFmt, tbl)

packVn(value, stdfFmt, tbl, host) ==
    IF vnPackMap(stdfFmt) = -1 THEN PackError
    ELSE Let(packField(PyInt(vnPackMap(stdfFmt)), "B1", tbl), LAMBDA genData :
         Let(vnPacker(value, stdfFmt, tbl, host), LAMBDA data :
             IF genData.err # "" \/ data.err # "" THEN PackError
             ELSE Packed(genData.bytes \o data.bytes)))

\* packMap[fmt](value, fmt)
packMap(value, fmt, tbl, host) ==
    CASE fmt = "N1" -> packField(value, "U1", tbl)
      [] fmt = "Cn" -> packCn(value)
      [] fmt = "Sn" -> packSn(value, host)
      [] fmt = "Bn" -> packBn(value)
      [] fmt = "Dn" -> packDn(value, host)
      [] fmt = "Vn" -> packVn(value, fmt, tbl, host)
      [] OTHER -> packField(value, fmt, tbl)

\* the items packed one after another: [err, bytes, count]
Joined(arr, count) ==
    IF \E k \in 1..Len(arr) : arr[k].err # ""
    THEN [err |-> "EndOfRecordException", bytes |-> << >>, count |-> 0]
    ELSE [err |-> "", bytes |-> Concat([k \in 1..Len(arr) |-> arr[k].bytes]),
          count |-> count]

\* packArray(record, index, arrayFmt, None): [err, bytes, count]
packArray(values, arrayFmt, tbl, host) ==
    IF ~HasLen(values) THEN [err |-> "EndOfRecordException", bytes |-> << >>, count |-> 0]
    ELSE Joined([k \in 1..PyLen(values) |-> packMap(Items(values)[k], arrayFmt, tbl, host)],
                PyLen(values))

\* packNibbleArray's byte as it would be with the earlier value in the
\* high nibble
NibblePairSwapped(values, j) ==
    BitOr(BitAnd(Items(values)[2 * j - 1].i, 15) * 16,
          IF 2 * j <= PyLen(values) THEN Items(values)[2 * j].i ELSE 0)

\* the byte of the j-th pair of nibbles of packNibbleArray
NibblePair(values, j) ==
    BitOr(BitAnd(Items(values)[2 * j - 1].i, 15),
          IF 2 * j <= PyLen(values) THEN Items(values)[2 * j].i * 16 ELSE 0)

\* packNibbleArray(record, index, "N1"): [err, bytes, count]
packNibbleArray(values, tbl) ==
    IF ~HasLen(values) \/ \E k \in 1..PyLen(values) : Items(values)[k].t # "int"
    THEN [err |-> "EndOfRecordException", bytes |-> << >>, count |-> 0]
    ELSE Joined([j \in 1..((PyLen(values) + 1) \div 2) |->
                    packField(PyInt(NibblePair(values, j)), "U1", tbl)],
                PyLen(values))

\* ------------------------------------------------------------------------
\* encodeRecord
\* ------------------------------------------------------------------------
\* -1e300 as a Python float: the IEEE double FE37E43C8800759C
MinusOneE300 == PyFloat(<<254, 55, 228, 60, 136, 0, 117, 156>>)

\* fmt is a key of defaultDataMap.  The defaults of U4, U8 and I8 are beyond
\* TLC's integers; no modelled record has a flag-gated field of these formats.
HasDefault(fmt) == fmt \in stdf2struct \cup {"N1", "Cn", "Sn", "Bn", "Dn"}

defaultDataMap(fmt) ==
    CASE fmt = "C1" -> PyStr(<<32>>)
      [] fmt \in {"B1", "U1"} -> PyInt(255)
      [] fmt = "U2" -> PyInt(65535)
      [] fmt = "I1" -> PyInt(-128)
      [] fmt = "I2" -> PyInt(-32768)
      [] fmt = "I4" -> PyInt(-2147483647 - 1)
      [] fmt \in {"R4", "R8"} -> MinusOneE300
      [] fmt = "N1" -> PyInt(15)
      [] fmt \in {"Cn", "Sn"} -> PyStr(<<>>)
      [] fmt \in {"Bn", "Dn"} -> PyList(<<>>)
      [] OTHER -> None

RECURSIVE Digits(_)
\* the ASCII decimal digits of a natural number
Digits(v) == IF v < 10 THEN <<48 + v>> ELSE Digits(v \div 10) \o <<48 + (v % 10)>>

\* str(value), as the bytes of the string
PyStrOf(value) ==
    CASE value.t = "str" -> value.s
      [] value.t = "int" -> IF value.i < 0 THEN <<45>> \o Digits(0 - value.i) ELSE Digits(value.i)
      [] value.t = "list" /\ value.l = << >> -> <<91, 93>>
      [] OTHER -> <<63>>

\* bool(value)
Truthy(value) ==
    CASE value.t = "none" -> FALSE
      [] value.t = "int" -> value.i # 0
      [] value.t = "float" -> \E k \in 1..Len(value.s) : value.s[k] # 0 /\ ~(k = 1 /\ value.s[k] = 128)
      [] value.t = "pair" -> TRUE
      [] OTHER -> PyLen(value) > 0

RECURSIVE ReduceOr(_, _)
\* reduce(lambda x, y: x or y, values) from the accumulator acc
ReduceOr(acc, values) ==
    IF values = << >> THEN acc
    ELSE ReduceOr(IF Truthy(acc) THEN acc ELSE Head(values), Tail(values))

\* the default encodeMissingField gives a flag-gated field
MissingDefault(f) == IF f.arrayFmt # "" THEN PyList(<<>>) ELSE defaultDataMap(f.format)

\* encodeMissingField on the loop state st of encodeRecord, for field k
\* (1-based) of fields: the value is None
encodeMissingField(fields, k, st, tbl, host) ==
    IF fields[k].missing.t = "none" THEN [st EXCEPT !.err = "EndOfRecordException"]
    ELSE IF fields[k].missing.t = "pair"
    THEN IF ~(\E j \in 1..Len(fields) : fields[j].name = fields[k].missing.n)
         THEN [st EXCEPT !.err = "EndOfRecordException"]
         ELSE Let(IndexOf(fields, fields[k].missing.n) + 1, LAMBDA fi :
              Let(MissingDefault(fields[k]), LAMBDA dflt :
                  IF fields[k].arrayFmt = "" /\ ~HasDefault(fields[k].format)
                  THEN [st EXCEPT !.err = "EndOfRecordException"]
                  ELSE IF st.values[fi].t # "int" \/ fields[fi].missing.t # "int"
                  THEN [st EXCEPT !.err = "EndOfRecordException", !.values[k] = dflt]
                  ELSE Let(BitOr(st.values[fi].i,
                                 BitXor(fields[fi].missing.i, fields[k].missing.i)),
                           LAMBDA nv :
                       Let(packMap(PyInt(nv), fields[fi].format, tbl, host), LAMBDA val :
                           IF val.err # ""
                           THEN [st EXCEPT !.err = "EndOfRecordException",
                                           !.values[k] = dflt, !.values[fi] = PyInt(nv)]
                           ELSE [st EXCEPT !.values[k] = dflt,
                                           !.values[fi] = PyInt(nv),
                                           !.processedData[fi] = val.bytes,
                                           !.processedData[k] = val.bytes]))))
    ELSE [st EXCEPT !.values[k] = PyStr(PyStrOf(fields[k].missing)),
                    !.processedData[k] = PyStrOf(fields[k].missing)]

\* the array packer encodeArrayField calls for the field
ArrayPacker(f, values, tbl, host) ==
    IF f.arrayFmt = "N1" THEN packNibbleArray(values, tbl)
    ELSE packArray(values, f.arrayFmt, tbl, host)

\* encodeArrayField on the loop state st of encodeRecord, for field k
encodeArrayField(fields, k, st, tbl, host) ==
    Let(ArrayPacker(fields[k], st.values[k], tbl, host), LAMBDA p :
    Let(fields[k].arrayNdx + 1, LAMBDA ci :
        IF p.err # "" THEN [st EXCEPT !.err = "EndOfRecordException"]
        ELSE IF st.values[ci] # PyInt(p.count)
        THEN Let(packMap(PyInt(p.count), fields[ci].format, tbl, host), LAMBDA c :
                 IF c.err # ""
                 THEN [st EXCEPT !.err = "EndOfRecordException", !.values[ci] = PyInt(p.count)]
                 ELSE [st EXCEPT !.values[ci] = PyInt(p.count),
                                 !.processedData[ci] = c.bytes,
                                 !.processedData[k] = p.bytes])
        ELSE [st EXCEPT !.processedData[k] = p.bytes]))

\* name.startswith(GEN_DATA_): the names with that prefix are those readVn
\* gives the slots of a generic data record
StartsWithGenData(name) == \E i \in 0..MaxSlots : name = GEN_DATA_(i)

\* one field of the loop of encodeRecord whose value is not None and that
\* is no array
EncodeScalar(f, val, tbl, host) ==
    IF StartsWithGenData(f.name) THEN packVn(val, f.format, tbl, host)
    ELSE IF f.format = "Cn" THEN packCn(val)
    ELSE IF EndsInNF(f.format) THEN packMap(val, f.format, tbl, host)
    ELSE packField(val, f.format, tbl)

RECURSIVE EncodeFields(_, _, _, _, _)
\* the loop of encodeRecord from field k (1-based) on
EncodeFields(fields, k, st, tbl, host) ==
    IF k > Len(fields) \/ st.err # "" THEN st
    ELSE IF st.values[k].t = "none"
    THEN EncodeFields(fields, k + 1, encodeMissingField(fields, k, st, tbl, host), tbl, host)
    ELSE IF fields[k].arrayFmt # ""
    THEN EncodeFields(fields, k + 1, encodeArrayField(fields, k, st, tbl, host), tbl, host)
    ELSE Let(EncodeScalar(fields[k], st.values[k], tbl, host), LAMBDA p :
             IF p.err # "" THEN [st EXCEPT !.err = "EndOfRecordException"]
             ELSE EncodeFields(fields, k + 1,
                      [st EXCEPT !.processedData[k] = p.bytes], tbl, host))

\* encodeRecord(record): [err, lazy, processedData, record].  With lazy the
\* result is record.buffer, given as its one-byte items; processedData[k]
\* is the bytes of field k otherwise; record holds the values as
\* encodeRecord leaves them.
encodeRecord(record, tbl, host) ==
    IF record.buffer # << >> /\ record.values = << >>
    THEN [err |-> "TypeError", lazy |-> FALSE, processedData |-> << >>, record |-> record]
    ELSE IF record.buffer # << >>
            /\ ReduceOr(Head(record.values), Tail(record.values)).t = "none"
    THEN [err |-> "", lazy |-> TRUE,
          processedData |-> [k \in 1..Len(record.buffer) |-> <<record.buffer[k]>>],
          record |-> record]
    ELSE Let(EncodeFields(record.fieldMap, 1,
                 [err |-> "", values |-> record.values,
                  processedData |-> [k \in 1..Len(record.fieldMap) |-> << >>]],
                 tbl, host),
             LAMBDA st :
                 [err |-> st.err, lazy |-> FALSE, processedData |-> st.processedData,
                  record |-> [record EXCEPT !.values = st.values]])

\* missingFlag(record, index, missing), index 0-based: for a (flagField,
\* mask) sentinel, record.values[flagField.index] | mask == flagField.missing
missingFlag(record, index, missing) ==
    IF missing.t = "pair"
    THEN Let(IndexOf(record.fieldMap, missing.n) + 1, LAMBDA fi :
             PyInt(BitOr(record.values[fi].i, missing.i)) = record.fieldMap[fi].missing)
    ELSE record.values[index + 1] = missing

\* packRecord(record, encodedValues): the header under the byte order hdr
\* of _packHeader, then the joined values
packRecord(record, encodedValues, hdr) ==
    Let(Concat(encodedValues), LAMBDA packedValues :
        IntToBytes(Len(packedValues), 2, hdr) \o <<record.typ, record.sub>> \o packedValues)

\* ------------------------------------------------------------------------
\* The state.  Stream 1 is the input handle given to a Parser, stream 2 the
\* file a Reader opens.
\* ------------------------------------------------------------------------
VARIABLES
    host,          \* the byte order of the machine: what struct's "@" means
    endian,        \* IO._endian
    unpackHeader,  \* the byte order of IO._unpackHeader and IO._packHeader
    stdf2unpack,   \* the byte order of the IO.stdf2unpack and IO.stdf2pack tables
    inp,           \* inp[s]: the file of stream s, [data, pos, closed]
    args,          \* the Parser's arguments: [breakCount, lazy, verify]
    ppc,           \* where the Parser is: new, ready, parsing, done, failed
    recordCount,   \* parse_records' recordCount
    events,        \* the events the Parser's sinks have received, in order
    perr,          \* the exception the Parser's caller has received ("" for none)
    rpc,           \* where the Reader is: new, ready, stopped, failed
    yielded,       \* the records Reader.next has returned, in order
    trace,         \* trace[s]: per header read on stream s, what was done with it
    detected,      \* detected[s]: the cursor before and after detectEndian, and _endian
    cpc,           \* where the record under the codec is: none, read, decoded, encoded
    crec,          \* the record under the codec: [record, err, printed, oft]
    enc,           \* what encodeRecord and packRecord gave for it: [err, lazy, processedData, packed]
    back,          \* the record read back from the written bytes: [exc, record, rest]
    flagged,       \* flagged[k]: what missingFlag returned for field k of the record
    again,         \* what a second writeRecord of the record gave: [err, lazy, processedData, packed]
    sink,          \* the sink of the Parser: [on, exc, raised], the event it raises on
    aborted,       \* the caller has closed the Parser's input during parse
    stream,        \* JsonStreamer.stream, the StringIO: [data, closed]
    lock,          \* JsonStreamer._lock: the thread that holds it ("" for none)
    done,          \* JsonStreamer._done
    sep,           \* JsonWriter.sep
    jpc,           \* the call the producer thread makes next on the JsonStreamer
    sent,          \* the number of after_send calls made
    gpc,           \* where the consumer thread is in grabBuffer
    written,       \* the text given to stream.write, in order
    grabbed,       \* the buffers grabBuffer has returned, one after the other
    pcSynth,       \* PartSummarizer.pcSynth: site -> <<partCnt, goodCnt, abortCnt>>
    prrs,          \* the rows of the PRRs the PartSummarizer was sent, in order
    atdf           \* the ATDF text of the record: [line, err, sent, kind, fields]

vars == <<host, endian, unpackHeader, stdf2unpack, inp, args, ppc, recordCount,
          events, perr, rpc, yielded, trace, detected, cpc, crec, enc, back, again, flagged, sink,
          aborted, stream, lock, done, sep, jpc, sent, gpc, written, grabbed,
          pcSynth, prrs, atdf>>

ioVars == <<endian, unpackHeader, stdf2unpack>>

parserVars == <<args, ppc, recordCount, events, perr>>

readerVars == <<rpc, yielded>>

codecVars == <<cpc, crec, enc, back, again, flagged>>

callerVars == <<sink, aborted>>

streamerVars == <<stream, lock, done, sep, jpc, sent, gpc, written, grabbed>>

summaryVars == <<pcSynth, prrs>>

\* no ATDF line written, none parsed
NoAtdf == [line |-> << >>, err |-> "", sent |-> FALSE, kind |-> "", fields |-> << >>]

AtdfInit == atdf = NoAtdf

\* PartSummarizer.before_begin: no site counted yet
SummaryInit ==
    /\ pcSynth = << >>
    /\ prrs = << >>

\* JsonStreamer.__init__: an empty StringIO, a free lock, nothing done
StreamerInit ==
    /\ stream = [data |-> << >>, closed |-> FALSE]
    /\ lock = ""
    /\ done = FALSE
    /\ sep = ""
    /\ jpc = "before_begin"
    /\ sent = 0
    /\ gpc = "call"
    /\ written = << >>
    /\ grabbed = << >>

\* what a byte order of the module state means on this machine
Order(e, h) == IF e = "@" THEN h ELSE e

\* inp.read(n): the bytes and the file after the read
FileRead(f, n) ==
    Let(Slice(f.data, f.pos, n), LAMBDA got :
        [bytes |-> got, file |-> [f EXCEPT !.pos = @ + Len(got)]])

\* detectEndian as it would be if it took the PDP-11 and VAX code 0 for
\* little-endian too
detectEndianVax(f, io) ==
    Let(FileRead([f EXCEPT !.pos = 0], 5), LAMBDA r :
        IF Len(r.bytes) < 5
        THEN [exc |-> "struct.error", file |-> r.file, endian |-> "@",
              unpackHeader |-> io.unpackHeader, stdf2unpack |-> io.stdf2unpack]
        ELSE IF r.bytes[3] # 0 /\ r.bytes[4] # 10
        THEN [exc |-> "InitialSequenceException", file |-> r.file, endian |-> "@",
              unpackHeader |-> io.unpackHeader, stdf2unpack |-> io.stdf2unpack]
        ELSE Let(IF r.bytes[5] \in {0, 2} THEN "<" ELSE ">", LAMBDA e :
                 [exc |-> "", file |-> [r.file EXCEPT !.pos = f.pos], endian |-> e,
                  unpackHeader |-> e, stdf2unpack |-> e]))

\* detectEndian as it would be without inp.seek(location)
detectEndianNoSeek(f, io) ==
    Let(FileRead([f EXCEPT !.pos = 0], 5), LAMBDA r :
        IF Len(r.bytes) < 5
        THEN [exc |-> "struct.error", file |-> r.file, endian |-> "@",
              unpackHeader |-> io.unpackHeader, stdf2unpack |-> io.stdf2unpack]
        ELSE IF r.bytes[3] # 0 /\ r.bytes[4] # 10
        THEN [exc |-> "InitialSequenceException", file |-> r.file, endian |-> "@",
              unpackHeader |-> io.unpackHeader, stdf2unpack |-> io.stdf2unpack]
        ELSE Let(IF r.bytes[5] = 2 THEN "<" ELSE ">", LAMBDA e :
                 [exc |-> "", file |-> r.file, endian |-> e,
                  unpackHeader |-> e, stdf2unpack |-> e]))

\* ------------------------------------------------------------------------
\* detectEndian(inp): [exc, file, endian, unpackHeader, stdf2unpack]
\* ------------------------------------------------------------------------
detectEndian(f, io) ==
    LET location == f.pos
    IN
    Let(FileRead([f EXCEPT !.pos = 0], 5), LAMBDA r :
        IF Len(r.bytes) < 5
        THEN [exc |-> "struct.error", file |-> r.file, endian |-> "@",
              unpackHeader |-> io.unpackHeader, stdf2unpack |-> io.stdf2unpack]
        ELSE LET typ     == r.bytes[3]
                 sub     == r.bytes[4]
                 cpuType == r.bytes[5]
                 e       == IF cpuType = 2 THEN "<" ELSE ">"
             IN  IF typ # 0 /\ sub # 10
                 THEN [exc |-> "InitialSequenceException", file |-> r.file, endian |-> "@",
                       unpackHeader |-> io.unpackHeader, stdf2unpack |-> io.stdf2unpack]
                 ELSE [exc |-> "", file |-> [r.file EXCEPT !.pos = location], endian |-> e,
                       unpackHeader |-> e, stdf2unpack |-> e])

\* readHeader(inp, recordMap): [exc, file, len, typ, sub]
readHeader(f, hdr) ==
    Let(FileRead(f, 4), LAMBDA r :
        IF f.closed \/ Len(r.bytes) # 4
        THEN [exc |-> "EofException", file |-> IF f.closed THEN f ELSE r.file,
              len |-> 0, typ |-> 0, sub |-> 0]
        ELSE [exc |-> "", file |-> r.file,
              len |-> BytesToInt(SubSeq(r.bytes, 1, 2), hdr),
              typ |-> r.bytes[3], sub |-> r.bytes[4]])

\* V4.RecordRegistrar[key](header=header, parser=self) and, unless the
\* record is left lazy, IO.decodeValues(record, verify):
\* [exc, file, record].  The pads of a generic data record read parser.inp.
NewRecord(f, h, lazy, verify, tbl, hst) ==
    Let(FileRead(f, h.len), LAMBDA r :
    Let(RecordType(RecordRegistrar(h.typ, h.sub), h.len, f.pos, r.bytes), LAMBDA record :
        IF Len(r.bytes) # h.len
        THEN [exc |-> "EofException", file |-> r.file, record |-> record]
        ELSE IF lazy = {} \/ record.name \in lazy
        THEN Let(decodeValues(record, verify, tbl, hst), LAMBDA d :
                 [exc |-> d.err, file |-> FileRead(r.file, d.reads).file, record |-> d.record])
        ELSE [exc |-> "", file |-> r.file, record |-> record]))

\* ------------------------------------------------------------------------
\* The streams the model draws
\* ------------------------------------------------------------------------
\* the most records after the first one in a stream
MaxRecs == 2

\* the most bytes cut off the end of a stream
MaxCut == 1

\* the furthest position the handle given to a Parser starts at
MaxStart == 6

\* the byte order a writer on the CPU of that code writes, as the FAR tells
WriterOrder(cpu) == IF cpu = 2 THEN "<" ELSE ">"

\* a record on the wire: header, then payload
Wire(typ, sub, payload, e) == IntToBytes(Len(payload), 2, e) \o <<typ, sub>> \o payload

PirPayload == <<1, 1>>

UnknownPayload == <<7, 8, 9>>

\* an MRR that ends after FINISH_T
MrrShortPayload(e) == IntToBytes(3, 4, e)

MrrPayload(e) == IntToBytes(3, 4, e) \o <<65>> \o <<1, 66>> \o <<0>>

\* GRP_INDX 1, GRP_NAM "A", INDX_CNT 2, PMR_INDX [7, 8]
PgrPayload(e) ==
    IntToBytes(1, 2, e) \o <<1, 65>> \o IntToBytes(2, 2, e)
        \o IntToBytes(7, 2, e) \o IntToBytes(8, 2, e)

\* CHN_NUM 1, BIT_POS 1, CELL_NAM "AB" as a conforming writer lays it out
CnrPayload(e) ==
    IntToBytes(1, 2, e) \o IntToBytes(1, 4, e) \o IntToBytes(2, 2, e) \o <<65, 66>>

\* FLD_CNT 4: Cn "AB", U1 255, a pad, I2 510 (the example of the Gdr docstring)
GdrPadPayload(e) ==
    IntToBytes(4, 2, e) \o <<10, 2, 65, 66>> \o <<1, 255>> \o <<0>>
        \o <<5>> \o IntToBytes(510, 2, e)

\* FLD_CNT 3: Cn "AB", U1 255, I2 510
GdrPayload(e) ==
    IntToBytes(3, 2, e) \o <<10, 2, 65, 66>> \o <<1, 255>> \o <<5>> \o IntToBytes(510, 2, e)

\* FLD_CNT 2: Dn of 9 bits, Bn of 1 byte
GdrBitsPayload(e) ==
    IntToBytes(2, 2, e) \o <<12>> \o IntToBytes(9, 2, e) \o <<255, 1>> \o <<11, 1, 128>>

\* a PTR with every field: OPT_FLAG 0, all limits present
PtrPayload(e) ==
    IntToBytes(1, 4, e) \o <<1, 1, 0, 0>> \o StructPack(PyFloat(<<63, 128, 0, 0>>), "R4", e)
        \o <<1, 84>> \o <<0>> \o <<0>> \o <<1, 2, 3>>
        \o StructPack(PyFloat(<<64, 0, 0, 0>>), "R4", e)
        \o StructPack(PyFloat(<<64, 64, 0, 0>>), "R4", e)
        \o <<1, 86>> \o <<0>> \o <<0>> \o <<0>>
        \o StructPack(PyFloat(<<63, 0, 0, 0>>), "R4", e)
        \o StructPack(PyFloat(<<64, 128, 0, 0>>), "R4", e)

\* the records a stream of the model is made of, after its first one
BodyMenu(e) ==
    { Wire(5, 10, PirPayload, e),
      Wire(99, 99, UnknownPayload, e),
      Wire(1, 20, MrrShortPayload(e), e),
      Wire(1, 62, PgrPayload(e), e),
      Wire(50, 10, GdrPadPayload(e), e) }

RECURSIVE Bodies(_, _)
\* the concatenations of at most n records of the menu
Bodies(e, n) ==
    IF n = 0 THEN { << >> }
    ELSE Bodies(e, n - 1) \cup { b \o r : b \in Bodies(e, n - 1), r \in BodyMenu(e) }

\* the (type, subtype, CPU code) of the first record of a stream
FirstMenu ==
    { <<0, 10, 0>>, <<0, 10, 1>>, <<0, 10, 2>>, <<0, 10, 255>>,
      <<0, 99, 2>>, <<99, 10, 1>>, <<99, 99, 2>> }

\* the streams a Parser is given
ParserStreams ==
    UNION { LET e == WriterOrder(f[3])
            IN  { LET d == Wire(f[1], f[2], <<f[3], 4>>, e) \o b
                  IN  SubSeq(d, 1, Len(d) - cut) :
                    b \in Bodies(e, MaxRecs), cut \in 0..MaxCut } :
            f \in FirstMenu }

\* the files a Reader opens
ReaderStreams ==
    { LET e == WriterOrder(cpu)
      IN  Wire(0, 10, <<cpu, 4>>, e) \o b[e] :
        cpu \in {1, 2},
        b \in { [e \in {"<", ">"} |-> Wire(1, 62, PgrPayload(e), e) \o Wire(5, 10, PirPayload, e)],
                [e \in {"<", ">"} |-> Wire(99, 99, UnknownPayload, e) \o Wire(5, 10, PirPayload, e)] } }

\* Parser(inp, lazy, verify) and parse(breakCount) as the callers of the model give them
DefaultArgs == [breakCount |-> 0, lazy |-> {}, verify |-> FALSE]

OtherArgs ==
    { [breakCount |-> 1, lazy |-> {}, verify |-> FALSE],
      [breakCount |-> 0, lazy |-> {"Pir"}, verify |-> FALSE],
      [breakCount |-> 0, lazy |-> {}, verify |-> TRUE] }

\* a stream that starts with a FAR a conforming writer wrote, and is whole
Proper(d) ==
    /\ Len(d) >= 6
    /\ d[3] = 0 /\ d[4] = 10 /\ d[5] \in {1, 2}
    /\ \E b \in Bodies(WriterOrder(d[5]), MaxRecs) : Len(d) = 6 + Len(b)

\* a whole stream of a first record and at most one more
Short(d) == \E e \in {"<", ">"} : \E b \in Bodies(e, 1) : Len(d) = 6 + Len(b)

\* a Parser's handle, where it stands, and the arguments
ParserSetups ==
    { [data |-> d, pos |-> 0, args |-> DefaultArgs] : d \in ParserStreams }
    \cup { [data |-> d, pos |-> 0, args |-> a] :
             d \in { x \in ParserStreams : Proper(x) }, a \in OtherArgs }
    \cup { [data |-> d, pos |-> p, args |-> DefaultArgs] :
             d \in { x \in ParserStreams : Short(x) }, p \in 1..MaxStart }

\* the file the Reader opens beside most of the Parser's handles
UsualReaderStream ==
    Wire(0, 10, <<1, 4>>, ">") \o Wire(99, 99, UnknownPayload, ">") \o Wire(5, 10, PirPayload, ">")

\* the handle and the file of a run: every handle beside the usual file,
\* and the proper short handles beside every file
Setups ==
    { [p |-> p, r |-> UsualReaderStream] : p \in ParserSetups }
    \cup { [p |-> [data |-> d, pos |-> 0, args |-> DefaultArgs], r |-> r] :
             d \in { x \in ParserStreams : Proper(x) /\ Short(x) }, r \in ReaderStreams }

File(data, pos) == [data |-> data, pos |-> pos, closed |-> FALSE]

NotDetected == [done |-> FALSE, exc |-> "", before |-> 0, after |-> 0, endian |-> "@"]

NoCodec == [record |-> None, err |-> "", printed |-> FALSE, reads |-> 0, oft |-> 0]

NoEncode == [err |-> "", lazy |-> FALSE, processedData |-> << >>, packed |-> << >>]

NoBack == [exc |-> "", record |-> None, rest |-> 0]

\* a sink that raises nothing
NoSink == [on |-> "none", exc |-> "", raised |-> FALSE]

\* the sinks that raise: on the event `on' the sink's handler raises exc
SinkFaults ==
    { [on |-> o, exc |-> x, raised |-> FALSE] :
        o \in {"begin", "send", "complete"}, x \in {"ValueError", "EofException"} }

\* ------------------------------------------------------------------------
\* Init: the module is imported (_endian is "@"), a handle is about to be
\* given to a Parser and a file to a Reader
\* ------------------------------------------------------------------------
Init ==
    /\ host \in {"<", ">"}
    /\ endian = "@"
    /\ unpackHeader = "@"
    /\ stdf2unpack = "@"
    /\ \E s \in Setups :
          /\ inp = <<File(s.p.data, s.p.pos), File(s.r, 0)>>
          /\ args = s.p.args
    /\ ppc = "new"
    /\ recordCount = 0
    /\ events = << >>
    /\ perr = ""
    /\ rpc = "new"
    /\ yielded = << >>
    /\ trace = << << >>, << >> >>
    /\ detected = <<NotDetected, NotDetected>>
    /\ cpc = "none"
    /\ crec = NoCodec
    /\ enc = NoEncode
    /\ back = NoBack
    /\ again = NoEncode
    /\ flagged = << >>
    /\ sink = NoSink
    /\ aborted = FALSE
    /\ StreamerInit
    /\ SummaryInit
    /\ AtdfInit

Event(e, record, exc) == [e |-> e, record |-> record, exc |-> exc]

Step(at, h, act, after, hdr, tbl) ==
    [at |-> at, len |-> h.len, typ |-> h.typ, sub |-> h.sub, act |-> act,
     after |-> after, hdr |-> hdr, tbl |-> tbl]

\* Parser.__init__
ParserInit ==
    /\ ppc = "new"
    /\ \E d \in { detectEndian(inp[1], [unpackHeader |-> unpackHeader,
                                         stdf2unpack |-> stdf2unpack]) } :
           /\ inp' = [inp EXCEPT ![1] = d.file]
           /\ endian' = d.endian
           /\ unpackHeader' = d.unpackHeader
           /\ stdf2unpack' = d.stdf2unpack
           /\ ppc' = IF d.exc = "" THEN "ready" ELSE "failed"
           /\ perr' = d.exc
           /\ detected' = [detected EXCEPT ![1] =
                  [done |-> TRUE, exc |-> d.exc, before |-> inp[1].pos,
                   after |-> d.file.pos, endian |-> d.endian]]
    /\ UNCHANGED <<host, atdf, summaryVars, streamerVars, args, recordCount, events, readerVars, trace, codecVars, callerVars>>

\* Parser.parse up to the loop of parse_records: begin()
ParseBegin ==
    /\ ppc = "ready"
    /\ events' = Append(events, Event("begin", None, ""))
    /\ IF sink.on = "begin"
       THEN /\ ppc' = "failed"
            /\ perr' = sink.exc
            /\ sink' = [sink EXCEPT !.raised = TRUE]
            /\ recordCount' = recordCount
       ELSE /\ ppc' = "parsing"
            /\ perr' = perr
            /\ sink' = sink
            /\ recordCount' = 1
    /\ UNCHANGED <<host, atdf, summaryVars, streamerVars, ioVars, inp, args, readerVars, trace, detected, codecVars, aborted>>

\* parse_records as it would be if the else branch forgot
\* self.inp.read(header.len)
parse_recordsNoRead(f, a, count, hdr, tbl, hst) ==
    Let(readHeader(f, hdr), LAMBDA h :
    Let(IF a.breakCount # 0 /\ count > a.breakCount THEN "break" ELSE "loop", LAMBDA leave :
        IF h.exc # ""
        THEN [file |-> h.file, exit |-> "eof", exc |-> "", evs |-> << >>, act |-> "eof", h |-> h]
        ELSE IF has_key(h.typ, h.sub)
        THEN Let(NewRecord(h.file, h, a.lazy, a.verify, tbl, hst), LAMBDA n :
                 IF n.exc = "EofException"
                 THEN [file |-> n.file, exit |-> "eof", exc |-> "", evs |-> << >>,
                       act |-> "short", h |-> h]
                 ELSE IF n.exc # ""
                 THEN [file |-> n.file, exit |-> "raise", exc |-> n.exc, evs |-> << >>,
                       act |-> "raise", h |-> h]
                 ELSE [file |-> n.file, exit |-> leave, exc |-> "",
                       evs |-> <<Event("send", n.record, "")>>, act |-> "send", h |-> h])
        ELSE [file |-> h.file, exit |-> leave, exc |-> "",
              evs |-> << >>, act |-> "skip", h |-> h]))

\* one turn of the loop of parse_records: [file, exit, exc, evs, act]
\* exit is "loop" (go round again), "break", "eof" (EofException caught) or
\* "raise" (any other exception, which parse turns into cancel and re-raises)
parse_records(f, a, count, hdr, tbl, hst) ==
    Let(readHeader(f, hdr), LAMBDA h :
    Let(IF a.breakCount # 0 /\ count > a.breakCount THEN "break" ELSE "loop", LAMBDA leave :
        IF h.exc # ""
        THEN [file |-> h.file, exit |-> "eof", exc |-> "", evs |-> << >>, act |-> "eof", h |-> h]
        ELSE IF has_key(h.typ, h.sub)
        THEN Let(NewRecord(h.file, h, a.lazy, a.verify, tbl, hst), LAMBDA n :
                 IF n.exc = "EofException"
                 THEN [file |-> n.file, exit |-> "eof", exc |-> "", evs |-> << >>,
                       act |-> "short", h |-> h]
                 ELSE IF n.exc # ""
                 THEN [file |-> n.file, exit |-> "raise", exc |-> n.exc, evs |-> << >>,
                       act |-> "raise", h |-> h]
                 ELSE [file |-> n.file, exit |-> leave, exc |-> "",
                       evs |-> <<Event("send", n.record, "")>>, act |-> "send", h |-> h])
        ELSE [file |-> FileRead(h.file, h.len).file, exit |-> leave, exc |-> "",
              evs |-> << >>, act |-> "skip", h |-> h]))

\* self.send(record) when the sink raises in its handler: the exception
\* leaves send inside the try of parse_records, which catches EofException
Sent(t, s) ==
    IF t.evs # << >> /\ s.on = "send"
    THEN [t EXCEPT !.exit = IF s.exc = "EofException" THEN "eof" ELSE "raise",
                   !.exc = IF s.exc = "EofException" THEN "" ELSE s.exc]
    ELSE t

\* self.complete() of parse, inside its try: the events, and the exception
\* that parse re-raises after cancel when the sink raises in its handler
Completed(s) ==
    IF s.on = "complete"
    THEN [evs |-> <<Event("complete", None, ""), Event("cancel", None, s.exc)>>, exc |-> s.exc]
    ELSE [evs |-> <<Event("complete", None, "")>>, exc |-> ""]

\* Parser.parse from the loop on: a turn of parse_records and, when the
\* loop is left, complete() or cancel(exception) and the re-raise
ParseRecords ==
    /\ ppc = "parsing"
    /\ \E t \in { Sent(parse_records(inp[1], args, recordCount, Order(unpackHeader, host),
                                     Order(stdf2unpack, host), host), sink) } :
           /\ inp' = [inp EXCEPT ![1] = t.file]
           /\ trace' = [trace EXCEPT ![1] =
                  Append(@, Step(inp[1].pos, t.h, t.act, t.file.pos,
                                 Order(unpackHeader, host), Order(stdf2unpack, host)))]
           /\ events' = events \o t.evs \o
                  (CASE t.exit = "loop"  -> << >>
                     [] t.exit = "raise" -> <<Event("cancel", None, t.exc)>>
                     [] OTHER            -> Completed(sink).evs)
           /\ ppc' = CASE t.exit = "loop"  -> "parsing"
                       [] t.exit = "raise" -> "failed"
                       [] OTHER            -> IF Completed(sink).exc = "" THEN "done" ELSE "failed"
           /\ perr' = IF t.exit \in {"loop", "raise"} THEN t.exc ELSE Completed(sink).exc
           /\ recordCount' = IF t.exit = "loop" THEN recordCount + 1 ELSE recordCount
           /\ sink' = [sink EXCEPT !.raised =
                  \/ @
                  \/ (t.evs # << >> /\ sink.on = "send")
                  \/ (t.exit \notin {"loop", "raise"} /\ sink.on = "complete")]
    /\ UNCHANGED <<host, atdf, summaryVars, streamerVars, ioVars, args, readerVars, detected, codecVars, aborted>>

\* the caller closes the Parser's input while parse is running (from a
\* sink's handler: the program is single-threaded, so between two turns
\* of the loop)
CloseInput ==
    /\ ppc = "parsing"
    /\ ~inp[1].closed
    /\ inp' = [inp EXCEPT ![1].closed = TRUE]
    /\ aborted' = TRUE
    /\ UNCHANGED <<host, atdf, summaryVars, streamerVars, ioVars, parserVars, readerVars, trace, detected, codecVars, sink>>

\* process_file after p.parse(breakCount=breakCount) has returned: f.close()
CloseFile ==
    /\ ppc = "done"
    /\ ppc' = "closed"
    /\ inp' = [inp EXCEPT ![1].closed = TRUE]
    /\ UNCHANGED <<host, atdf, summaryVars, streamerVars, ioVars, args, recordCount, events, perr, readerVars, trace,
                   detected, codecVars, callerVars>>

\* Reader.__init__: open(fileName, mode), then detectEndian
ReaderInit ==
    /\ rpc = "new"
    /\ \E d \in { detectEndian(inp[2], [unpackHeader |-> unpackHeader,
                                         stdf2unpack |-> stdf2unpack]) } :
           /\ inp' = [inp EXCEPT ![2] = d.file]
           /\ endian' = d.endian
           /\ unpackHeader' = d.unpackHeader
           /\ stdf2unpack' = d.stdf2unpack
           /\ rpc' = IF d.exc = "" THEN "ready" ELSE "failed"
           /\ detected' = [detected EXCEPT ![2] =
                  [done |-> TRUE, exc |-> d.exc, before |-> inp[2].pos,
                   after |-> d.file.pos, endian |-> d.endian]]
    /\ UNCHANGED <<host, atdf, summaryVars, streamerVars, parserVars, yielded, trace, codecVars, callerVars>>

\* Reader.next: [file, exc, record, act]; the Reader's lazy is None
next(f, hdr, tbl, hst) ==
    Let(readHeader(f, hdr), LAMBDA h :
        IF h.exc # ""
        THEN [file |-> h.file, exc |-> h.exc, record |-> None, act |-> "eof", h |-> h]
        ELSE IF has_key(h.typ, h.sub)
        THEN Let(NewRecord(h.file, h, {}, FALSE, tbl, hst), LAMBDA n :
                 [file |-> n.file, exc |-> n.exc, record |-> n.record,
                  act |-> IF n.exc = "" THEN "send" ELSE "raise", h |-> h])
        ELSE [file |-> h.file, exc |-> "KeyError", record |-> None, act |-> "raise", h |-> h])

\* a call of Reader.next by the iteration: the record is returned, or the
\* file is closed and StopIteration ends the iteration
ReaderNext ==
    /\ rpc = "ready"
    /\ \E t \in { next(inp[2], Order(unpackHeader, host), Order(stdf2unpack, host), host) } :
           /\ inp' = [inp EXCEPT ![2] = [t.file EXCEPT !.closed = (t.exc # "")]]
           /\ trace' = [trace EXCEPT ![2] =
                  Append(@, Step(inp[2].pos, t.h, t.act, t.file.pos,
                                 Order(unpackHeader, host), Order(stdf2unpack, host)))]
           /\ yielded' = IF t.exc = "" THEN Append(yielded, t.record) ELSE yielded
           /\ rpc' = IF t.exc = "" THEN "ready" ELSE "stopped"
    /\ UNCHANGED <<host, atdf, summaryVars, streamerVars, ioVars, parserVars, detected, codecVars, callerVars>>

Next ==
    \/ ParserInit
    \/ ParseBegin
    \/ ParseRecords
    \/ CloseInput
    \/ CloseFile
    \/ ReaderInit
    \/ ReaderNext

Spec == Init /\ [][Next]_vars

\* ------------------------------------------------------------------------
\* The Parser with a sink that raises in one of its handlers, on a whole
\* stream read from its start
\* ------------------------------------------------------------------------
InitSinks ==
    /\ host \in {"<", ">"}
    /\ endian = "@"
    /\ unpackHeader = "@"
    /\ stdf2unpack = "@"
    /\ \E d \in { x \in ParserStreams : Proper(x) } :
          inp = <<File(d, 0), File(UsualReaderStream, 0)>>
    /\ args = DefaultArgs
    /\ ppc = "new"
    /\ recordCount = 0
    /\ events = << >>
    /\ perr = ""
    /\ rpc = "new"
    /\ yielded = << >>
    /\ trace = << << >>, << >> >>
    /\ detected = <<NotDetected, NotDetected>>
    /\ cpc = "none"
    /\ crec = NoCodec
    /\ enc = NoEncode
    /\ back = NoBack
    /\ again = NoEncode
    /\ flagged = << >>
    /\ sink \in SinkFaults
    /\ aborted = FALSE
    /\ StreamerInit
    /\ SummaryInit
    /\ AtdfInit

SpecSinks == InitSinks /\ [][Next]_vars

\* ------------------------------------------------------------------------
\* The codec on one record: a record as the Parser constructs it from a
\* header and a payload, decoded, then written as StdfWriter.writeRecord
\* writes it.  The module's byte order is what an earlier detectEndian
\* left, and the payload is in that order.
\* ------------------------------------------------------------------------
\* the whole payloads of the codec's records: <<type, subtype, payload>>
CodecWhole(e) ==
    { <<0, 10, <<2, 4>> >>,
      <<1, 20, MrrPayload(e)>>,
      <<1, 62, PgrPayload(e)>>,
      <<1, 92, CnrPayload(e)>>,
      <<5, 10, PirPayload>>,
      <<15, 10, PtrPayload(e)>>,
      <<20, 20, << >> >>,
      <<50, 10, GdrPayload(e)>>,
      <<50, 10, GdrPadPayload(e)>>,
      <<50, 10, GdrBitsPayload(e)>> }

\* the most bytes of a payload the codec is given
MaxPayload == 39

\* every payload and every one of its beginnings
CodecMenu(e) ==
    { <<m[1], m[2], Slice(m[3], 0, k)>> : m \in CodecWhole(e), k \in 0..MaxPayload }

InitCodec ==
    /\ host \in {"<", ">"}
    /\ endian \in {"<", ">"}
    /\ unpackHeader = endian
    /\ stdf2unpack = endian
    /\ inp = <<File(<< >>, 0), File(<< >>, 0)>>
    /\ args \in {DefaultArgs, [DefaultArgs EXCEPT !.verify = TRUE]}
    /\ ppc = "new"
    /\ recordCount = 0
    /\ events = << >>
    /\ perr = ""
    /\ rpc = "new"
    /\ yielded = << >>
    /\ trace = << << >>, << >> >>
    /\ detected = <<NotDetected, NotDetected>>
    /\ cpc = "read"
    /\ \E m \in CodecMenu(endian) :
          crec = [NoCodec EXCEPT
                     !.record = RecordType(RecordRegistrar(m[1], m[2]), Len(m[3]), 0, m[3])]
    /\ enc = NoEncode
    /\ back = NoBack
    /\ again = NoEncode
    /\ flagged = << >>
    /\ sink = NoSink
    /\ aborted = FALSE
    /\ StreamerInit
    /\ SummaryInit
    /\ AtdfInit

\* IO.decodeValues(record, verify) on the record
DecodeValues ==
    /\ cpc = "read"
    /\ \E d \in { decodeValues(crec.record, args.verify, Order(stdf2unpack, host), host) } :
          /\ crec' = d
          /\ cpc' = IF d.err = "" THEN "decoded" ELSE "raised"
    /\ UNCHANGED <<host, atdf, summaryVars, streamerVars, ioVars, inp, parserVars, readerVars, trace, detected, enc, back,
                   again, flagged, callerVars>>

\* StdfWriter.writeRecord: encodeRecord, then packRecord of what it returned
writeRecord(record, hdr, tbl, hst) ==
    Let(encodeRecord(record, tbl, hst), LAMBDA e :
        [err |-> e.err, lazy |-> e.lazy, processedData |-> e.processedData,
         record |-> e.record,
         packed |-> IF e.err = "" THEN packRecord(e.record, e.processedData, hdr) ELSE << >>])

\* the decoded record is written
WriteRecord ==
    /\ cpc \in {"decoded", "built"}
    /\ \E w \in { writeRecord(crec.record, Order(unpackHeader, host),
                              Order(stdf2unpack, host), host) } :
          /\ enc' = [err |-> w.err, lazy |-> w.lazy, processedData |-> w.processedData,
                     packed |-> w.packed]
          /\ crec' = [crec EXCEPT !.record = w.record]
          /\ cpc' = IF w.err = "" THEN "encoded" ELSE "failed"
    /\ UNCHANGED <<host, atdf, summaryVars, streamerVars, ioVars, inp, parserVars, readerVars, trace, detected, back,
                   again, flagged, callerVars>>

\* RecordType.verify(name, fmt, data): the exception raised, "" for none.
\* self.original[name] is the tuple (offset, length) decodeValues stored,
\* or '' (the defaultdict's str()) for a field it stored nothing for; a
\* string and a tuple are never equal
verifyField(record, name, fmt, data) ==
    Let(IF fmt = "Dn" THEN 4 ELSE 0, LAMBDA offset :
        IF \E j \in 1..Len(record.original) : record.original[j].name = name
        THEN "MismatchException"
        ELSE IF Slice(data, offset, Len(data)) # << >> THEN "MismatchException" ELSE "")

\* StdfVerify.after_send(dataSource, record): encodeRecord, then verify on
\* every field in order; [err, lazy, processedData]
StdfVerify(record, tbl, hst) ==
    Let(encodeRecord(record, tbl, hst), LAMBDA e :
        [lazy |-> e.lazy, processedData |-> e.processedData,
         err |-> IF e.err # "" THEN e.err
                 ELSE IF \E k \in 1..Len(e.record.fieldMap) :
                            k > Len(e.processedData)
                 THEN "IndexError"
                 ELSE IF \E k \in 1..Len(e.record.fieldMap) :
                            verifyField(e.record, e.record.fieldMap[k].name,
                                        e.record.fieldMap[k].format, e.processedData[k]) # ""
                 THEN "MismatchException"
                 ELSE ""])

\* the record decoded in verification mode goes through StdfVerify
VerifyRecord ==
    /\ cpc = "decoded"
    /\ args.verify
    /\ \E v \in { StdfVerify(crec.record, Order(stdf2unpack, host), host) } :
          enc' = [err |-> v.err, lazy |-> v.lazy, processedData |-> v.processedData,
                  packed |-> << >>]
    /\ cpc' = "verified"
    /\ UNCHANGED <<host, atdf, summaryVars, streamerVars, ioVars, inp, parserVars, readerVars, trace, detected,
                   crec, back, again, flagged, callerVars>>

NextCodec ==
    \/ DecodeValues
    \/ WriteRecord
    \/ VerifyRecord

SpecCodec == InitCodec /\ [][NextCodec]_vars

\* ------------------------------------------------------------------------
\* The writer on records built in memory: a record class instantiated
\* without a header, its values given by the caller (None where the
\* caller gave none), written, and the written bytes read back
\* ------------------------------------------------------------------------
\* the most fields of a record the caller leaves without a value
MaxNone == 2

\* the most items of an array, and the largest stored count
MaxItems == 2

One == PyFloat(<<63, 128, 0, 0>>)

Two == PyFloat(<<64, 0, 0, 0>>)

\* the values of OPT_FLAG: no bit, bit 7, bits 5 and 7
OptFlags == {0, 128, 160}

PtrValues(opt) ==
    << PyInt(1), PyInt(1), PyInt(1), PyInt(0), PyInt(0), One, PyStr(<<84>>), PyStr(<<>>),
       PyInt(opt), PyInt(1), PyInt(2), PyInt(3), One, Two,
       PyStr(<<86>>), PyStr(<<>>), PyStr(<<>>), PyStr(<<>>), One, Two >>

PirValues(h) == <<PyInt(h), PyInt(1)>>

MrrValues == <<PyInt(3), PyStr(<<65>>), PyStr(<<>>), PyStr(<<>>)>>

\* n numbers, n strings
Ints(n) == PyList([k \in 1..n |-> PyInt(k)])

Strs(n) == PyList([k \in 1..n |-> PyStr(<<64 + k>>)])

PgrValues(cnt, n) == <<PyInt(1), PyStr(<<71>>), PyInt(cnt), Ints(n)>>

PlrValues(cnt, n) ==
    <<PyInt(cnt), Ints(n), Ints(n), Ints(n), Strs(n), Strs(n), Strs(n), Strs(n)>>

MprValues(cnt, n) ==
    << PyInt(1), PyInt(1), PyInt(1), PyInt(0), PyInt(0), PyInt(cnt), PyInt(1),
       Ints(n), PyList(<<One>>), PyStr(<<84>>), PyStr(<<>>),
       PyInt(0), PyInt(1), PyInt(2), PyInt(3), One, Two, One, Two,
       Ints(n), PyStr(<<86>>), PyStr(<<>>), PyStr(<<>>), PyStr(<<>>), PyStr(<<>>), One, Two >>

\* the values with those at the positions of S left out by the caller
Blank(values, S) == [k \in 1..Len(values) |-> IF k \in S THEN None ELSE values[k]]

\* the sets of at most m positions among n
NoneSets(n, m) == { S \in SUBSET (1..n) : Cardinality(S) <= m }

\* cls(**kwargs), or a record as the Parser left it when buffer is not empty
Built(typ, sub, buffer, values) ==
    [RecordType(RecordRegistrar(typ, sub), Len(buffer), 0, buffer) EXCEPT !.values = values]

EncodeMenu ==
    { Built(15, 10, << >>, Blank(PtrValues(o), S)) : o \in OptFlags, S \in NoneSets(20, MaxNone) }
    \cup { Built(5, 10, << >>, Blank(PirValues(h), S)) : h \in {0, 1}, S \in NoneSets(2, MaxNone) }
    \cup { Built(5, 10, <<h>>, <<PyInt(h), None>>) : h \in {0, 1} }
    \cup { Built(1, 20, << >>, Blank(MrrValues, S)) : S \in NoneSets(4, MaxNone) }
    \cup { Built(1, 62, << >>, Blank(PgrValues(c, n), S)) :
              c \in 0..MaxItems, n \in 0..MaxItems, S \in NoneSets(4, MaxNone) }
    \cup { Built(1, 63, << >>, Blank(PlrValues(c, n), S)) :
              c \in 0..MaxItems, n \in 0..MaxItems, S \in NoneSets(8, 1) }
    \cup { Built(15, 15, << >>, Blank(MprValues(c, n), S)) :
              c \in 0..MaxItems, n \in 0..MaxItems, S \in NoneSets(27, 1) }

InitEncode ==
    /\ host \in {"<", ">"}
    /\ endian \in {"<", ">"}
    /\ unpackHeader = endian
    /\ stdf2unpack = endian
    /\ inp = <<File(<< >>, 0), File(<< >>, 0)>>
    /\ args = DefaultArgs
    /\ ppc = "new"
    /\ recordCount = 0
    /\ events = << >>
    /\ perr = ""
    /\ rpc = "new"
    /\ yielded = << >>
    /\ trace = << << >>, << >> >>
    /\ detected = <<NotDetected, NotDetected>>
    /\ cpc = "built"
    /\ \E r \in EncodeMenu : crec = [NoCodec EXCEPT !.record = r]
    /\ enc = NoEncode
    /\ back = NoBack
    /\ again = NoEncode
    /\ flagged = << >>
    /\ sink = NoSink
    /\ aborted = FALSE
    /\ StreamerInit
    /\ SummaryInit
    /\ AtdfInit

\* the written bytes read as the Parser reads a record: readHeader, the
\* record class of the header, decodeValues
ReadBack ==
    /\ cpc = "encoded"
    /\ \E h \in { readHeader(File(enc.packed, 0), Order(unpackHeader, host)) } :
       \E n \in { NewRecord(h.file, h, {}, FALSE, Order(stdf2unpack, host), host) } :
          back' = [exc |-> n.exc, record |-> n.record, rest |-> Len(enc.packed) - n.file.pos]
    /\ cpc' = "reread"
    /\ UNCHANGED <<host, atdf, summaryVars, streamerVars, ioVars, inp, parserVars, readerVars, trace, detected, crec, enc,
                   again, flagged, callerVars>>

\* StdfWriter.writeRecord once more on the record as the first call left
\* it, nothing done to the record in between
WriteAgain ==
    /\ cpc = "encoded"
    /\ \E w \in { writeRecord(crec.record, Order(unpackHeader, host),
                              Order(stdf2unpack, host), host) } :
          again' = [err |-> w.err, lazy |-> w.lazy, processedData |-> w.processedData,
                    packed |-> w.packed]
    /\ cpc' = "repeated"
    /\ UNCHANGED <<host, atdf, summaryVars, streamerVars, ioVars, inp, parserVars, readerVars, trace, detected,
                   crec, enc, back, flagged, callerVars>>

NextEncode ==
    \/ WriteRecord
    \/ ReadBack
    \/ WriteAgain

SpecEncode == InitEncode /\ [][NextEncode]_vars

\* ------------------------------------------------------------------------
\* missingFlag on the fields of a PTR and of an MPR, for every OPT_FLAG
\* ------------------------------------------------------------------------
\* the values of a B1 field
FlagBytes == 0..255

FlagMenu ==
    { Built(15, 10, << >>, PtrValues(o)) : o \in FlagBytes }
    \cup { Built(15, 15, << >>, [MprValues(1, 1) EXCEPT ![12] = PyInt(o)]) : o \in FlagBytes }

InitFlags ==
    /\ host \in {"<", ">"}
    /\ endian \in {"<", ">"}
    /\ unpackHeader = endian
    /\ stdf2unpack = endian
    /\ inp = <<File(<< >>, 0), File(<< >>, 0)>>
    /\ args = DefaultArgs
    /\ ppc = "new"
    /\ recordCount = 0
    /\ events = << >>
    /\ perr = ""
    /\ rpc = "new"
    /\ yielded = << >>
    /\ trace = << << >>, << >> >>
    /\ detected = <<NotDetected, NotDetected>>
    /\ cpc = "built"
    /\ \E r \in FlagMenu : crec = [NoCodec EXCEPT !.record = r]
    /\ enc = NoEncode
    /\ back = NoBack
    /\ again = NoEncode
    /\ flagged = << >>
    /\ sink = NoSink
    /\ aborted = FALSE
    /\ StreamerInit
    /\ SummaryInit
    /\ AtdfInit

\* missingFlag(record, index, missing) for every field of the record
MissingFlags ==
    /\ cpc = "built"
    /\ flagged' = [k \in 1..Len(crec.record.fieldMap) |->
                      missingFlag(crec.record, k - 1, crec.record.fieldMap[k].missing)]
    /\ cpc' = "flagged"
    /\ UNCHANGED <<host, atdf, summaryVars, streamerVars, ioVars, inp, parserVars, readerVars, trace, detected,
                   crec, enc, back, again, callerVars>>

NextFlags == MissingFlags

SpecFlags == InitFlags /\ [][NextFlags]_vars

\* ------------------------------------------------------------------------
\* Nibble arrays: an MPR whose RTN_STAT (k5N1) is any array of nibbles,
\* written and read back
\* ------------------------------------------------------------------------
\* the most nibbles of RTN_STAT
MaxNibbles == 3

\* the values of a nibble the model draws
NibbleValues == {0, 1, 9, 15}

\* the arrays of at most MaxNibbles nibbles
NibbleArrays == UNION { [1..n -> NibbleValues] : n \in 0..MaxNibbles }

\* an MPR with RTN_ICNT = len(arr) and RTN_STAT = arr
MprNibbles(arr) ==
    [MprValues(Len(arr), Len(arr)) EXCEPT ![8] = PyList([k \in 1..Len(arr) |-> PyInt(arr[k])])]

NibbleMenu == { Built(15, 15, << >>, MprNibbles(arr)) : arr \in NibbleArrays }

InitNibbles ==
    /\ host \in {"<", ">"}
    /\ endian \in {"<", ">"}
    /\ unpackHeader = endian
    /\ stdf2unpack = endian
    /\ inp = <<File(<< >>, 0), File(<< >>, 0)>>
    /\ args = DefaultArgs
    /\ ppc = "new"
    /\ recordCount = 0
    /\ events = << >>
    /\ perr = ""
    /\ rpc = "new"
    /\ yielded = << >>
    /\ trace = << << >>, << >> >>
    /\ detected = <<NotDetected, NotDetected>>
    /\ cpc = "built"
    /\ \E r \in NibbleMenu : crec = [NoCodec EXCEPT !.record = r]
    /\ enc = NoEncode
    /\ back = NoBack
    /\ again = NoEncode
    /\ flagged = << >>
    /\ sink = NoSink
    /\ aborted = FALSE
    /\ StreamerInit
    /\ SummaryInit
    /\ AtdfInit

SpecNibbles == InitNibbles /\ [][NextEncode]_vars

\* ------------------------------------------------------------------------
\* The JSON streamer: the thread of the Parser calls before_begin,
\* after_send for each record and after_complete on the JsonStreamer,
\* another thread calls grabBuffer again and again until it returns True.
\* A text is the sequence of the pieces written.
\* ------------------------------------------------------------------------
\* the most records the Parser sends
MaxSent == 2

\* the names of the records sent
SentNames == {"Far", "Pir"}

\* JsonWriter.before_begin writes the opening of the document
Opening == <<"{data:[">>

\* the line JsonWriter.after_send writes for a record: the separator, then
\* the record
Line(s, name) == IF s = "" THEN <<name>> ELSE <<s, name>>

\* JsonWriter.after_complete writes the closing of the document
Closing == <<"]}">>

\* the with-statement of a producer method takes the lock
ProducerAcquire ==
    /\ jpc \in {"before_begin", "after_send", "after_complete"}
    /\ lock = ""
    /\ lock' = "producer"
    /\ UNCHANGED <<host, atdf, summaryVars, ioVars, inp, parserVars, readerVars, trace, detected, codecVars,
                   callerVars, stream, done, sep, jpc, sent, gpc, written, grabbed>>

\* JsonStreamer.before_begin under the lock: the opening is written, the
\* separator is emptied, the lock is released
BeforeBegin ==
    /\ jpc = "before_begin"
    /\ lock = "producer"
    /\ stream' = [stream EXCEPT !.data = @ \o Opening]
    /\ written' = written \o Opening
    /\ sep' = ""
    /\ lock' = ""
    /\ jpc' \in {"after_send", "after_complete"}
    /\ UNCHANGED <<host, atdf, summaryVars, ioVars, inp, parserVars, readerVars, trace, detected, codecVars,
                   callerVars, done, sent, gpc, grabbed>>

\* JsonStreamer.after_send under the lock: the line of the record is
\* written, the lock is released
AfterSend ==
    /\ jpc = "after_send"
    /\ lock = "producer"
    /\ \E name \in SentNames :
          /\ stream' = [stream EXCEPT !.data = @ \o Line(sep, name)]
          /\ written' = written \o Line(sep, name)
    /\ sep' = ","
    /\ lock' = ""
    /\ sent' = sent + 1
    /\ jpc' \in (IF sent + 1 < MaxSent THEN {"after_send"} ELSE {}) \cup {"after_complete"}
    /\ UNCHANGED <<host, atdf, summaryVars, ioVars, inp, parserVars, readerVars, trace, detected, codecVars,
                   callerVars, done, gpc, grabbed>>

\* JsonStreamer.after_complete under the lock: the closing is written, the
\* lock is released
AfterComplete ==
    /\ jpc = "after_complete"
    /\ lock = "producer"
    /\ stream' = [stream EXCEPT !.data = @ \o Closing]
    /\ written' = written \o Closing
    /\ lock' = ""
    /\ jpc' = "set_done"
    /\ UNCHANGED <<host, atdf, summaryVars, ioVars, inp, parserVars, readerVars, trace, detected, codecVars,
                   callerVars, done, sep, sent, gpc, grabbed>>

\* the last statement of JsonStreamer.after_complete, after the lock was
\* released: self._done = True
SetDone ==
    /\ jpc = "set_done"
    /\ done' = TRUE
    /\ jpc' = "end"
    /\ UNCHANGED <<host, atdf, summaryVars, ioVars, inp, parserVars, readerVars, trace, detected, codecVars,
                   callerVars, stream, lock, sep, sent, gpc, written, grabbed>>

\* the with-statement of grabBuffer takes the lock
GrabAcquire ==
    /\ gpc = "call"
    /\ lock = ""
    /\ lock' = "consumer"
    /\ gpc' = "locked"
    /\ UNCHANGED <<host, atdf, summaryVars, ioVars, inp, parserVars, readerVars, trace, detected, codecVars,
                   callerVars, stream, done, sep, jpc, sent, written, grabbed>>

\* grabBuffer under the lock: buf is all the stream holds, the stream is
\* truncated to nothing, the lock is released; a buf that is not empty is
\* returned
GrabLocked ==
    /\ gpc = "locked"
    /\ lock = "consumer"
    /\ stream' = [stream EXCEPT !.data = << >>]
    /\ lock' = ""
    /\ IF stream.data # << >>
       THEN /\ grabbed' = grabbed \o stream.data
            /\ gpc' = "call"
       ELSE /\ grabbed' = grabbed
            /\ gpc' = "if_done"
    /\ UNCHANGED <<host, atdf, summaryVars, ioVars, inp, parserVars, readerVars, trace, detected, codecVars,
                   callerVars, done, sep, jpc, sent, written>>

\* grabBuffer with an empty buf: if self._done: self.stream.close()
GrabIfDone ==
    /\ gpc = "if_done"
    /\ stream' = [stream EXCEPT !.closed = done]
    /\ gpc' = "return"
    /\ UNCHANGED <<host, atdf, summaryVars, ioVars, inp, parserVars, readerVars, trace, detected, codecVars,
                   callerVars, lock, done, sep, jpc, sent, written, grabbed>>

\* grabBuffer with an empty buf: return self._done; the consumer stops at
\* True and calls again at False
GrabReturn ==
    /\ gpc = "return"
    /\ gpc' = IF done THEN "stopped" ELSE "call"
    /\ UNCHANGED <<host, atdf, summaryVars, ioVars, inp, parserVars, readerVars, trace, detected, codecVars,
                   callerVars, stream, lock, done, sep, jpc, sent, written, grabbed>>

InitStreamer ==
    /\ host = "<"
    /\ endian = "@"
    /\ unpackHeader = "@"
    /\ stdf2unpack = "@"
    /\ inp = <<File(<< >>, 0), File(<< >>, 0)>>
    /\ args = DefaultArgs
    /\ ppc = "new"
    /\ recordCount = 0
    /\ events = << >>
    /\ perr = ""
    /\ rpc = "new"
    /\ yielded = << >>
    /\ trace = << << >>, << >> >>
    /\ detected = <<NotDetected, NotDetected>>
    /\ cpc = "none"
    /\ crec = NoCodec
    /\ enc = NoEncode
    /\ back = NoBack
    /\ again = NoEncode
    /\ flagged = << >>
    /\ sink = NoSink
    /\ aborted = FALSE
    /\ StreamerInit
    /\ SummaryInit
    /\ AtdfInit

NextStreamer ==
    \/ ProducerAcquire
    \/ BeforeBegin
    \/ AfterSend
    \/ AfterComplete
    \/ SetDone
    \/ GrabAcquire
    \/ GrabLocked
    \/ GrabIfDone
    \/ GrabReturn

SpecStreamer == InitStreamer /\ [][NextStreamer]_vars

\* ------------------------------------------------------------------------
\* The part summarizer: PartSummarizer.before_send on the PRRs of a stream
\* ------------------------------------------------------------------------
\* the most PRRs sent
MaxPrr == 3

\* the SITE_NUM and PART_FLG of the PRRs the model draws
PrrSites == {1, 2}

PrrFlags == {0, 4, 8, 12, 16}

\* pcSynth.setdefault(site, ([0], [0], [0]))
SetDefault(d, site) ==
    [s \in DOMAIN d \cup {site} |-> IF s \in DOMAIN d THEN d[s] ELSE <<0, 0, 0>>]

\* onPrr(row): the counts after the row
onPrr(d, row) ==
    Let(SetDefault(d, row.SITE_NUM), LAMBDA e :
        [e EXCEPT ![row.SITE_NUM] =
            << @[1] + 1,
               IF BitAnd(row.PART_FLG, 8) = 0 THEN @[2] + 1 ELSE @[2],
               IF BitAnd(row.PART_FLG, 4) = 0 THEN @[3] + 1 ELSE @[3] >>])

\* before_send(dataSource, record) with a PRR
BeforeSendPrr ==
    /\ Len(prrs) < MaxPrr
    /\ \E site \in PrrSites, flg \in PrrFlags :
          /\ pcSynth' = onPrr(pcSynth, [SITE_NUM |-> site, PART_FLG |-> flg])
          /\ prrs' = Append(prrs, [SITE_NUM |-> site, PART_FLG |-> flg])
    /\ UNCHANGED <<host, atdf, ioVars, inp, parserVars, readerVars, trace, detected, codecVars,
                   callerVars, streamerVars>>

InitSummary ==
    /\ host = "<"
    /\ endian = "@"
    /\ unpackHeader = "@"
    /\ stdf2unpack = "@"
    /\ inp = <<File(<< >>, 0), File(<< >>, 0)>>
    /\ args = DefaultArgs
    /\ ppc = "new"
    /\ recordCount = 0
    /\ events = << >>
    /\ perr = ""
    /\ rpc = "new"
    /\ yielded = << >>
    /\ trace = << << >>, << >> >>
    /\ detected = <<NotDetected, NotDetected>>
    /\ cpc = "none"
    /\ crec = NoCodec
    /\ enc = NoEncode
    /\ back = NoBack
    /\ again = NoEncode
    /\ flagged = << >>
    /\ sink = NoSink
    /\ aborted = FALSE
    /\ StreamerInit
    /\ SummaryInit
    /\ AtdfInit

NextSummary == BeforeSendPrr

SpecSummary == InitSummary /\ [][NextSummary]_vars

\* ------------------------------------------------------------------------
\* ATDF text: AtdfWriter.after_send writes a decoded record as a line, and
\* the Parser of pyatdf parses the line.  Text is a sequence of character
\* codes.
\* ------------------------------------------------------------------------
\* the characters of a record class's name
NameChars(name) ==
    CASE name = "Far" -> <<70, 97, 114>>
      [] name = "Mrr" -> <<77, 114, 114>>
      [] name = "Pgr" -> <<80, 103, 114>>
      [] name = "Plr" -> <<80, 108, 114>>
      [] name = "Cnr" -> <<67, 110, 114>>
      [] name = "Pir" -> <<80, 105, 114>>
      [] name = "Ptr" -> <<80, 116, 114>>
      [] name = "Mpr" -> <<77, 112, 114>>
      [] name = "Eps" -> <<69, 112, 115>>
      [] name = "Gdr" -> <<71, 100, 114>>
      [] OTHER -> <<85, 110, 107, 110, 111, 119, 110, 82, 101, 99, 111, 114, 100>>

\* '%02d' % v and '%02X' % v
TwoDigits(v) == IF v < 10 THEN <<48, 48 + v>> ELSE Digits(v)

HexDigit(d) == IF d < 10 THEN 48 + d ELSE 55 + d

TwoHex(v) == IF v < 16 THEN <<48, HexDigit(v)>> ELSE <<HexDigit(v \div 16), HexDigit(v % 16)>>

\* strftime('%H:%M:%S %d-%b-%Y', localtime(t)) of a time of the epoch's
\* first day, on a machine whose local time is UTC
strftime(t) ==
    TwoDigits(t \div 3600) \o <<58>> \o TwoDigits((t \div 60) % 60) \o <<58>>
        \o TwoDigits(t % 60) \o <<32, 48, 49, 45, 74, 97, 110, 45, 49, 57, 55, 48>>

\* AtdfWriter.format_by_type(value, field_type)
format_by_type(value, field_type) ==
    IF field_type \in {"B1", "N1"} THEN TwoHex(value.i)
    ELSE IF value.t = "none" THEN <<78, 111, 110, 101>>
    ELSE PyStrOf(value)

RECURSIVE JoinWith(_, _)
\* sep.join(parts)
JoinWith(c, parts) ==
    IF parts = << >> THEN << >>
    ELSE IF Len(parts) = 1 THEN parts[1]
    ELSE parts[1] \o <<c>> \o JoinWith(c, Tail(parts))

\* the names of the modelled fields that end in '_T'
DateTimes == {"FINISH_T"}

\* AtdfWriter.format(record, field) with the field at position k
format(record, k) ==
    Let(record.values[k], LAMBDA value :
        IF value = None THEN << >>
        ELSE IF record.fieldMap[k].arrayFmt # ""
        THEN JoinWith(44, [j \in 1..Len(value.l) |->
                              format_by_type(value.l[j], record.fieldMap[k].arrayFmt)])
        ELSE IF record.name \in {"Mir", "Mrr"} /\ record.fieldMap[k].name \in DateTimes
        THEN strftime(value.i)
        ELSE PyStrOf(value))

\* the line AtdfWriter.after_send writes to its stream
after_send(record) ==
    NameChars(record.name) \o <<58>>
        \o JoinWith(124, [k \in 1..Len(record.fieldMap) |-> format(record, k)])
        \o <<10>>

\* the fieldTuple of the A4 record types: <<name, caster>>, "" for None
A4Far == << <<"CPU_TYPE", "">>, <<"STDF_VER", "int">>, <<"ATDF_VER", "int">>, <<"SCAL_FLG", "">> >>

A4Mrr == << <<"FINISH_T", "">>, <<"DISP_COD", "">>, <<"USR_DESC", "">>, <<"EXC_DESC", "">> >>

A4Pgr == << <<"GRP_INDX", "int">>, <<"GRP_NAM", "">>, <<"PMR_INDX", "ipr">> >>

A4Pir == << <<"HEAD_NUM", "int">>, <<"SITE_NUM", "int">> >>

A4Eps == << >>

\* A4.records, for the kinds of record the model writes as text: Parser's
\* recordMap has the class name as key.  A4 has no Cnr.
A4records ==
    { [name |-> "Far", fieldTuple |-> A4Far],
      [name |-> "Mrr", fieldTuple |-> A4Mrr],
      [name |-> "Pgr", fieldTuple |-> A4Pgr],
      [name |-> "Pir", fieldTuple |-> A4Pir],
      [name |-> "Eps", fieldTuple |-> A4Eps] }

IsSpace(c) == c \in {9, 10, 11, 12, 13, 32}

RECURSIVE LStrip(_)
LStrip(chars) ==
    IF chars # << >> /\ IsSpace(chars[1]) THEN LStrip(Tail(chars)) ELSE chars

\* str.strip()
Strip(chars) == Reverse(LStrip(Reverse(LStrip(chars))))

IsAlpha(c) == c \in 65..90 \/ c \in 97..122

\* str.title()
Title(chars) ==
    [k \in 1..Len(chars) |->
        IF ~IsAlpha(chars[k]) THEN chars[k]
        ELSE IF k = 1 \/ ~IsAlpha(chars[k - 1])
        THEN (IF chars[k] >= 97 THEN chars[k] - 32 ELSE chars[k])
        ELSE (IF chars[k] <= 90 THEN chars[k] + 32 ELSE chars[k])]

RECURSIVE SplitFrom(_, _, _)
\* the loop of str.split(sep): cur is the item being read
SplitFrom(chars, c, cur) ==
    IF chars = << >> THEN <<cur>>
    ELSE IF chars[1] = c THEN <<cur>> \o SplitFrom(Tail(chars), c, << >>)
    ELSE SplitFrom(Tail(chars), c, Append(cur, chars[1]))

\* str.split(sep) with a separator of one character
Split(chars, c) == SplitFrom(chars, c, << >>)

IsDigits(chars) == chars # << >> /\ \A k \in 1..Len(chars) : chars[k] \in 48..57

RECURSIVE DigitsValue(_, _)
DigitsValue(chars, acc) ==
    IF chars = << >> THEN acc ELSE DigitsValue(Tail(chars), 10 * acc + (chars[1] - 48))

\* a caster's result
Cast(value) == [err |-> "", val |-> value]

CastError(exc) == [err |-> exc, val |-> None]

\* int(s) of a str: an optional sign and decimal digits, white space around
\* them allowed; ValueError otherwise
int(chars) ==
    Let(Strip(chars), LAMBDA s :
        IF s # << >> /\ s[1] \in {43, 45} /\ IsDigits(Tail(s))
        THEN Cast(PyInt(IF s[1] = 45 THEN 0 - DigitsValue(Tail(s), 0) ELSE DigitsValue(Tail(s), 0)))
        ELSE IF IsDigits(s) THEN Cast(PyInt(DigitsValue(s, 0)))
        ELSE CastError("ValueError"))

\* A4.listParser(valueList, int, ','): every item that is not empty is cast
ipr(valueList) ==
    Let(Split(valueList, 44), LAMBDA values :
        IF \E k \in 1..Len(values) : values[k] # << >> /\ int(values[k]).err # ""
        THEN CastError("ValueError")
        ELSE Cast(PyList([k \in 1..Len(values) |->
                            IF values[k] = << >> THEN PyStr(<< >>) ELSE int(values[k]).val])))

\* caster(value) for the casters of the modelled field tuples
Caster(caster, value) ==
    IF caster = "int" THEN int(value) ELSE ipr(value)

\* the body of recordParser's loop for item k (1-based) of the split line:
\* the (name, caster) entry is that of the position, or the first entry
\* from position fieldCount on; an empty fieldTuple has no first entry
ParseItem(values, k, fieldTuple) ==
    IF k > Len(fieldTuple) /\ fieldTuple = << >> THEN CastError("IndexError")
    ELSE Let((IF k <= Len(fieldTuple) THEN fieldTuple[k] ELSE fieldTuple[1])[2], LAMBDA caster :
             IF values[k] # << >> /\ caster # "" THEN Caster(caster, values[k])
             ELSE Cast(PyStr(values[k])))

\* Parser.recordParser(line, recType): [err, fields]
recordParser(line, fieldTuple) ==
    Let(Split(line, 124), LAMBDA values :
        IF \E k \in 1..Len(values) : ParseItem(values, k, fieldTuple).err # ""
        THEN [err |-> ParseItem(values,
                                CHOOSE k \in 1..Len(values) :
                                    /\ ParseItem(values, k, fieldTuple).err # ""
                                    /\ \A j \in 1..(k - 1) : ParseItem(values, j, fieldTuple).err = "",
                                fieldTuple).err,
              fields |-> << >>]
        ELSE [err |-> "",
              fields |-> [k \in 1..Len(values) |-> ParseItem(values, k, fieldTuple).val]])

\* fields += [None] * (recType.fieldCount - len(fields))
PadNone(fields, fieldCount) ==
    IF Len(fields) < fieldCount
    THEN fields \o [k \in 1..(fieldCount - Len(fields)) |-> None]
    ELSE fields

\* Parser.parse() of pyatdf on an input of the one line: what was sent,
\* or the exception parse raises
parseLine(line) ==
    Let(Strip(line), LAMBDA stripped :
    Let(Title(Slice(stripped, 0, 3)), LAMBDA recordType :
        IF \E r \in A4records : NameChars(r.name) = recordType
        THEN Let(CHOOSE r \in A4records : NameChars(r.name) = recordType, LAMBDA recType :
             Let(recordParser(Slice(stripped, 4, Len(stripped)), recType.fieldTuple), LAMBDA p :
                 [line |-> line, err |-> p.err, sent |-> p.err = "", kind |-> recType.name,
                  fields |-> IF p.err = "" THEN PadNone(p.fields, Len(recType.fieldTuple))
                             ELSE << >>]))
        ELSE [line |-> line, err |-> "", sent |-> FALSE, kind |-> "", fields |-> << >>]))

\* the records written as text: their values are integers, strings and
\* lists of integers
AtdfWhole(e) ==
    { <<0, 10, <<2, 4>> >>,
      <<1, 20, MrrPayload(e)>>,
      <<1, 62, PgrPayload(e)>>,
      <<1, 92, CnrPayload(e)>>,
      <<5, 10, PirPayload>>,
      <<20, 20, << >> >> }

\* every payload and every one of its beginnings
AtdfMenu(e) ==
    { <<m[1], m[2], Slice(m[3], 0, k)>> : m \in AtdfWhole(e), k \in 0..MaxPayload }

InitAtdf ==
    /\ host \in {"<", ">"}
    /\ endian \in {"<", ">"}
    /\ unpackHeader = endian
    /\ stdf2unpack = endian
    /\ inp = <<File(<< >>, 0), File(<< >>, 0)>>
    /\ args = DefaultArgs
    /\ ppc = "new"
    /\ recordCount = 0
    /\ events = << >>
    /\ perr = ""
    /\ rpc = "new"
    /\ yielded = << >>
    /\ trace = << << >>, << >> >>
    /\ detected = <<NotDetected, NotDetected>>
    /\ cpc = "read"
    /\ \E m \in AtdfMenu(endian) :
          crec = [NoCodec EXCEPT
                     !.record = RecordType(RecordRegistrar(m[1], m[2]), Len(m[3]), 0, m[3])]
    /\ enc = NoEncode
    /\ back = NoBack
    /\ again = NoEncode
    /\ flagged = << >>
    /\ sink = NoSink
    /\ aborted = FALSE
    /\ StreamerInit
    /\ SummaryInit
    /\ AtdfInit

\* AtdfWriter.after_send(dataSource, record) with the decoded record
AtdfAfterSend ==
    /\ cpc = "decoded"
    /\ atdf' = [NoAtdf EXCEPT !.line = after_send(crec.record)]
    /\ cpc' = "written"
    /\ UNCHANGED <<host, summaryVars, streamerVars, ioVars, inp, parserVars, readerVars, trace,
                   detected, crec, enc, back, again, flagged, callerVars>>

\* Parser(inp=<the text written>).parse()
AtdfParse ==
    /\ cpc = "written"
    /\ atdf' = parseLine(atdf.line)
    /\ cpc' = "parsed"
    /\ UNCHANGED <<host, summaryVars, streamerVars, ioVars, inp, parserVars, readerVars, trace,
                   detected, crec, enc, back, again, flagged, callerVars>>

NextAtdf ==
    \/ DecodeValues
    \/ AtdfAfterSend
    \/ AtdfParse

SpecAtdf == InitAtdf /\ [][NextAtdf]_vars

\* ------------------------------------------------------------------------
\* Properties
\* ------------------------------------------------------------------------
Last(s) == s[Len(s)]

Min(a, b) == IF a < b THEN a ELSE b

\* the byte order the CPU code in the first record of stream s selects
Selected(s) == IF inp[s].data[5] = 2 THEN "<" ELSE ">"

\* the bytes of the record as the stream held them, header first
SourceBytes(record, hdr) ==
    IntToBytes(Len(record.buffer), 2, hdr) \o <<record.typ, record.sub>> \o record.buffer

HasDn(record) == \E k \in 1..Len(record.fieldMap) : record.fieldMap[k].format = "Dn"

\* the payload is not empty and was decoded to its very end without an
\* error, on a machine whose byte order is the stream's, and every field
\* the payload leaves out has a literal missing value
DecodedWhole ==
    /\ crec.err = ""
    /\ ~crec.printed
    /\ crec.record.buffer # << >>
    /\ crec.oft = Len(crec.record.buffer)
    /\ host = stdf2unpack
    /\ \A k \in 1..Len(crec.record.values) : crec.record.values[k].t \notin {"none", "pair"}

\* C1: a record decoded from a conforming stream and written back with its
\* values unchanged gives the bytes of the source record, header and
\* payload (a record with a Dn field: as many bytes).
C1_RoundTrip ==
    (cpc \in {"encoded", "failed"} /\ DecodedWhole) =>
        /\ enc.err = ""
        /\ IF HasDn(crec.record)
           THEN Len(enc.packed) = Len(SourceBytes(crec.record, Order(unpackHeader, host)))
           ELSE enc.packed = SourceBytes(crec.record, Order(unpackHeader, host))

\* a whole MRR, decoded and written back, is the source's bytes again
C1_WholeRoundTrip ==
    /\ cpc = "encoded"
    /\ crec.record.name = "Mrr"
    /\ crec.record.buffer = MrrPayload(stdf2unpack)
    /\ enc.packed = SourceBytes(crec.record, Order(unpackHeader, host))

\* the records Parser or Reader s has delivered
Delivered(s) ==
    IF s = 1 THEN \E j \in 1..Len(events) : events[j].e = "send" ELSE yielded # << >>

\* C2: detectEndian on a stream whose first header is not (0, 10) raises
\* InitialSequenceException, and no record of the stream is delivered.
C2_InitialSequence ==
    \A s \in {1, 2} :
        (detected[s].done /\ <<inp[s].data[3], inp[s].data[4]>> # <<0, 10>>) =>
            /\ detected[s].exc = "InitialSequenceException"
            /\ ~Delivered(s)

\* a step that is detectEndian on stream s
DetectStep(s) == detected'[s] # detected[s]

\* the bytes 01 02 00 00 read as a number of `size' bytes under byte order e
OneTwo(size, e) == IF e = "<" THEN 513 ELSE IF size = 2 THEN 258 ELSE 16908288

\* the header and the fixed-width scalars are read and written in order e
\* by the module state after the step
ReadsAndWrites(e) ==
    /\ readHeader(File(<<1, 2, 0, 10>>, 0), Order(unpackHeader', host)).len = OneTwo(2, e)
    /\ \A fmt \in {"U2", "I2", "U4", "I4"} :
          /\ readField(<<1, 2, 0, 0>>, 0, fmt, Order(stdf2unpack', host)).val
                = PyInt(OneTwo(calcsize(fmt), e))
          /\ packField(PyInt(OneTwo(calcsize(fmt), e)), fmt, Order(stdf2unpack', host)).bytes
                = SubSeq(<<1, 2, 0, 0>>, 1, calcsize(fmt))
    /\ readField(<<1, 2, 3, 4>>, 0, "R4", Order(stdf2unpack', host)).val
          = PyFloat(IF e = "<" THEN <<4, 3, 2, 1>> ELSE <<1, 2, 3, 4>>)

\* C3: a detectEndian that returns leaves the module reading and writing
\* the header and the fixed-width scalars little-endian when the CPU code
\* is 2 and big-endian for every other code, and no other step changes that.
C3_EndianSelection ==
    [][ /\ \A s \in {1, 2} :
              (DetectStep(s) /\ detected'[s].exc = "") =>
                  /\ endian' = Selected(s)
                  /\ unpackHeader' = Selected(s)
                  /\ stdf2unpack' = Selected(s)
                  /\ ReadsAndWrites(Selected(s))
        /\ (~DetectStep(1) /\ ~DetectStep(2)) => UNCHANGED ioVars ]_vars

\* a stream of CPU code 0 was opened and a header of it read big-endian
C3_Selected ==
    /\ detected[1].done /\ detected[1].exc = ""
    /\ inp[1].data[5] = 0
    /\ detected[1].endian = ">"
    /\ trace[1] # << >> /\ trace[1][1].hdr = ">"

\* C4: a detectEndian that returns leaves the cursor where it was, whatever
\* that position, and the byte order it detects is the one the first five
\* bytes alone give.
C4_CursorRestored ==
    \A s \in {1, 2} :
        (detected[s].done /\ detected[s].exc = "") =>
            /\ detected[s].after = detected[s].before
            /\ detected[s].endian
                 = detectEndian(File(SubSeq(inp[s].data, 1, 5), 0),
                                [unpackHeader |-> "@", stdf2unpack |-> "@"]).endian

\* detectEndian returned on a handle that stood past the first record
C4_Restored ==
    /\ detected[1].done /\ detected[1].exc = ""
    /\ detected[1].before = 6
    /\ detected[1].after = 6
    /\ Len(inp[1].data) > 6

\* C5: every header and record of a stream is read in the byte order its
\* own first record selects, however the steps on the two streams interleave.
C5_StreamScoped ==
    \A s \in {1, 2} : \A i \in 1..Len(trace[s]) :
        trace[s][i].hdr = Selected(s) /\ trace[s][i].tbl = Selected(s)

\* a step in which parse_records met a header that is not registered
SkipStep == Len(trace'[1]) = Len(trace[1]) + 1 /\ Last(trace'[1]).act = "skip"

C7_UnknownDelivered ==
    \A i \in 1..Len(trace[1]) :
        trace[1][i].act = "skip" =>
            \E j \in 1..Len(events) :
                /\ events[j].e = "send"
                /\ events[j].record.name = "UnknownRecord"
                /\ events[j].record.typ = trace[1][i].typ
                /\ events[j].record.sub = trace[1][i].sub

RECURSIVE Walk(_, _, _)
\* the records of a stream from pos on as their headers frame them under
\* byte order e: [at, typ, sub, len] each
Walk(data, pos, e) ==
    IF pos + 4 > Len(data) THEN << >>
    ELSE <<[at |-> pos, typ |-> data[pos + 3], sub |-> data[pos + 4],
            len |-> BytesToInt(SubSeq(data, pos + 1, pos + 2), e)]>>
         \o Walk(data, pos + 4 + BytesToInt(SubSeq(data, pos + 1, pos + 2), e), e)

\* C8: when the iteration of a Reader has ended, every registered record
\* that is whole in the file has been yielded, those after an unregistered
\* record too (no other stream was opened meanwhile).
C8_ReaderContinues ==
    (rpc = "stopped" /\ ppc = "new") =>
        \A i \in 1..Len(Walk(inp[2].data, 0, Selected(2))) :
            LET r == Walk(inp[2].data, 0, Selected(2))[i]
            IN  (has_key(r.typ, r.sub) /\ r.at + 4 + r.len <= Len(inp[2].data)) =>
                    \E j \in 1..Len(yielded) :
                        /\ yielded[j].typ = r.typ /\ yielded[j].sub = r.sub
                        /\ yielded[j].offset = r.at + 4

\* C9: a payload that ends right after one of its fields decodes without an
\* exception and with no field holding a (flagField, mask) descriptor.
C9_TrailingSentinels ==
    (/\ cpc \in {"decoded", "raised"}
     /\ crec.record.name # "Gdr"
     /\ crec.record.buffer # << >>
     /\ ~crec.printed
     /\ crec.oft = Len(crec.record.buffer)) =>
        /\ crec.err = ""
        /\ \A k \in 1..Len(crec.record.values) : crec.record.values[k].t # "pair"

\* the stream is registered records from its first byte to its last, a
\* FAR first
WellFormed(data, e) ==
    LET w == Walk(data, 0, e)
    IN  /\ w # << >>
        /\ w[1].typ = 0 /\ w[1].sub = 10
        /\ \A i \in 1..Len(w) : has_key(w[i].typ, w[i].sub)
        /\ Last(w).at + 4 + Last(w).len = Len(data)

\* C10: when parse has ended on a stream of registered records that ends at
\* a record boundary, read from its start and alone in the process, the
\* sinks have received begin, each record once in stream order, complete,
\* and no cancel.
C10_EventTrace ==
    (/\ ppc \in {"done", "closed", "failed"}
     /\ rpc = "new"
     /\ detected[1].before = 0
     /\ detected[1].exc = ""
     /\ args.breakCount = 0
     /\ ~aborted /\ sink = NoSink
     /\ WellFormed(inp[1].data, Selected(1))) =>
        LET w == Walk(inp[1].data, 0, Selected(1))
        IN  /\ ppc \in {"done", "closed"}
            /\ Len(events) = Len(w) + 2
            /\ events[1].e = "begin"
            /\ Last(events).e = "complete"
            /\ \A i \in 1..Len(w) :
                  /\ events[i + 1].e = "send"
                  /\ events[i + 1].record.typ = w[i].typ
                  /\ events[i + 1].record.sub = w[i].sub
                  /\ events[i + 1].record.offset = w[i].at + 4

\* C11: when the input ends inside a record (a whole header, then fewer
\* payload bytes than header.len), parse has issued cancel and re-raised,
\* and has not issued complete.
C11_MidRecordFatal ==
    \A i \in 1..Len(trace[1]) :
        (trace[1][i].act = "short"
           \/ (trace[1][i].act = "skip" /\ trace[1][i].after < trace[1][i].at + 4 + trace[1][i].len)) =>
            /\ ppc = "failed"
            /\ perr # ""
            /\ Last(events).e = "cancel"
            /\ \A j \in 1..Len(events) : events[j].e # "complete"

\* C12: once the sink has raised in one of its handlers, parse has issued
\* cancel with that exception as its last event and re-raised it to the
\* caller, and complete was issued only if it is the event the sink raised on.
C12_SinkRaises ==
    sink.raised =>
        /\ ppc = "failed"
        /\ perr = sink.exc
        /\ Last(events).e = "cancel"
        /\ Last(events).exc = sink.exc
        /\ \A j \in 1..Len(events) : events[j].e = "complete" => sink.on = "complete"

\* C18: when process_file has ended, by the return of parse and the close
\* after it or by an exception out of parse, the input handle is closed.
C18_HandleReleased ==
    (ppc = "closed" \/ (ppc = "failed" /\ events # << >>)) => inp[1].closed

\* C19: when the caller has closed the input during parse and parse has
\* ended, the sinks have received cancel and have not received complete.
C19_CloseCancels ==
    (aborted /\ ppc \in {"done", "closed", "failed"}) =>
        /\ \E j \in 1..Len(events) : events[j].e = "cancel"
        /\ \A j \in 1..Len(events) : events[j].e # "complete"

\* the positions of the required fields the record has no value for
RequiredNone(record) ==
    { k \in 1..Len(record.fieldMap) :
        record.fieldMap[k].missing.t = "none" /\ record.values[k].t = "none" }

\* C13: encoding a record in which a required field has no value raises
\* the required-missing error (EndOfRecordException) and gives no bytes,
\* whichever the field and whatever the other values.
C13_RequiredMissing ==
    (cpc \in {"encoded", "failed", "reread"} /\ RequiredNone(crec.record) # {}) =>
        /\ cpc = "failed"
        /\ enc.err = "EndOfRecordException"
        /\ enc.packed = << >>

\* the bits a mask names (the masks are the complements of their bits) are
\* set in the flag byte
FlagBitsSet(flag, mask) == BitAnd(flag, BitXor(255, mask)) # 0

\* C14: in what encodeRecord returns, a field whose sentinel is
\* (flagField, mask) has no bytes exactly when the bits of the mask are
\* set in the byte emitted for flagField.
C14_FlagCoherence ==
    (cpc \in {"encoded", "reread"} /\ ~enc.lazy) =>
        \A k \in 1..Len(crec.record.fieldMap) :
            LET f == crec.record.fieldMap[k]
            IN  f.missing.t = "pair" =>
                    LET fi == IndexOf(crec.record.fieldMap, f.missing.n) + 1
                    IN  (enc.processedData[k] = << >>)
                            <=> FlagBitsSet(enc.processedData[fi][1], f.missing.i)

\* C15: the bytes written for a PTR whose OPT_FLAG has bit 7 set, read
\* back, give HI_LIMIT missing, OPT_FLAG with bit 7 set, and the field
\* after HI_LIMIT as it was written.
C15_HiLimitOmitted ==
    (/\ cpc = "reread"
     /\ crec.record.name = "Ptr"
     /\ BitAnd(crec.record.values[9].i, 128) = 128) =>
        /\ back.exc = ""
        /\ back.record.values[14].t \in {"none", "pair"}
        /\ back.record.values[9].t = "int"
        /\ BitAnd(back.record.values[9].i, 128) = 128
        /\ back.record.values[15] = crec.record.values[15]

\* the number the bytes emitted for the count field of array field k hold
EmittedCount(k) ==
    LET ci == crec.record.fieldMap[k].arrayNdx + 1
    IN  readField(enc.processedData[ci], 0, crec.record.fieldMap[ci].format,
                  Order(stdf2unpack, host))

\* the bytes emitted for array field k read as cnt items of its format
ItemsOnWire(k, cnt) ==
    IF crec.record.fieldMap[k].arrayFmt = "N1"
    THEN readNibbleArray(enc.processedData[k], 0, cnt, Order(stdf2unpack, host))
    ELSE readArray(enc.processedData[k], 0, cnt, crec.record.fieldMap[k].arrayFmt,
                   Order(stdf2unpack, host), host)

\* C16: in what encodeRecord returns, the bytes of every array field are
\* as many items as the number emitted for its count field.
C16_ArraySizing ==
    (cpc \in {"encoded", "reread"} /\ ~enc.lazy) =>
        \A k \in 1..Len(crec.record.fieldMap) :
            crec.record.fieldMap[k].arrayFmt # "" =>
                /\ EmittedCount(k).err = ""
                /\ EmittedCount(k).off
                     = Len(enc.processedData[crec.record.fieldMap[k].arrayNdx + 1])
                /\ ItemsOnWire(k, EmittedCount(k).val.i).err = ""
                /\ ItemsOnWire(k, EmittedCount(k).val.i).off = Len(enc.processedData[k])

\* C17: the GDR payload FLD_CNT, Cn "AB", U1 255, a pad, I2 0x01FE decodes
\* without error to "AB", 255, a pad slot and 0x01FE in that order, the
\* pad taking its tag byte only (nothing is read from the input stream),
\* and what is then written carries the payload byte for byte.
C17_GdrRoundTrip ==
    (/\ cpc # "read"
     /\ crec.record.typ = 50
     /\ crec.record.buffer = GdrPadPayload(endian)) =>
        /\ cpc \in {"decoded", "encoded"}
        /\ crec.err = ""
        /\ crec.reads = 0
        /\ Len(crec.record.values) = 5
        /\ crec.record.values[2] = PyStr(<<65, 66>>)
        /\ crec.record.values[3] = PyInt(255)
        /\ crec.record.values[5] = PyInt(510)
        /\ cpc = "encoded" =>
              enc.packed = IntToBytes(Len(GdrPadPayload(endian)), 2, Order(unpackHeader, host))
                             \o <<50, 10>> \o GdrPadPayload(endian)

\* C20: when grabBuffer has returned True, the buffers it returned before,
\* one after the other, are exactly the text the producer wrote: nothing
\* lost, nothing twice.
C20_StreamerDrain ==
    gpc = "stopped" => grabbed = written

\* C23: encodeRecord gives the original buffer back only for a record none
\* of whose values is set (the shortcut leaves the values as they were).
C23_LazyShortcut ==
    (cpc \in {"encoded", "reread"} /\ enc.lazy) =>
        /\ crec.record.buffer # << >>
        /\ \A k \in 1..Len(crec.record.values) : crec.record.values[k] = None

\* C24: in what encodeRecord returns, the bytes of every scalar field whose
\* sentinel is a literal are one whole value of the field's format, also
\* when the field had no value and its sentinel was written.
C24_SentinelWidth ==
    (cpc \in {"encoded", "reread"} /\ ~enc.lazy) =>
        \A k \in 1..Len(crec.record.fieldMap) :
            (/\ crec.record.fieldMap[k].arrayFmt = ""
             /\ crec.record.fieldMap[k].missing.t \notin {"none", "pair"}) =>
                /\ unpackMap(enc.processedData[k], 0, crec.record.fieldMap[k].format,
                             Order(stdf2unpack, host), host).err = ""
                /\ unpackMap(enc.processedData[k], 0, crec.record.fieldMap[k].format,
                             Order(stdf2unpack, host), host).off = Len(enc.processedData[k])

\* C30: a second encodeRecord of a record that the first one encoded,
\* nothing done to the record in between, succeeds and gives the same
\* bytes.
C30_EncodeRepeatable ==
    cpc = "repeated" =>
        /\ again.err = ""
        /\ again.packed = enc.packed

\* the k nibbles of RTN_STAT of the MPR under the codec
Nibbles == [k \in 1..PyLen(crec.record.values[8]) |-> crec.record.values[8].l[k].i]

\* C25: an N1 array of k nibbles is written as ceil(k/2) bytes, byte i
\* holding element 2i in its low nibble and element 2i+1, or zero when
\* there is none, in its high nibble; read with count k the bytes give the
\* k elements back.
C25_NibbleArray ==
    (cpc \in {"encoded", "reread", "repeated"} /\ crec.record.name = "Mpr") =>
        /\ enc.err = ""
        /\ Len(enc.processedData[8]) = (Len(Nibbles) + 1) \div 2
        /\ \A j \in 1..Len(enc.processedData[8]) :
              enc.processedData[8][j]
                 = Nibbles[2 * j - 1] + 16 * (IF 2 * j <= Len(Nibbles) THEN Nibbles[2 * j] ELSE 0)
        /\ readNibbleArray(enc.processedData[8], 0, Len(Nibbles), Order(stdf2unpack, host))
              = Read(crec.record.values[8], Len(enc.processedData[8]))
        /\ cpc = "reread" =>
              /\ back.exc = ""
              /\ back.record.values[8] = crec.record.values[8]

\* an MPR with three nibbles, the last one 15, was written and read back
C25_OddRead ==
    /\ cpc = "reread"
    /\ crec.record.name = "Mpr"
    /\ Nibbles = <<9, 1, 15>>
    /\ enc.processedData[8] = <<25, 15>>
    /\ back.record.values[8] = crec.record.values[8]

\* C29: a CNR written in the stream's byte order, whose CELL_NAM (Sn) has a
\* two-byte length, and a GDR whose Dn slot has a two-byte bit count, decode
\* to the values written whatever the byte order of the machine, and are
\* written back with the length and the bit count (of the whole bytes) in
\* the stream's byte order.
C29_CountByteOrder ==
    /\ (/\ cpc # "read"
        /\ crec.record.name = "Cnr"
        /\ crec.record.buffer = CnrPayload(endian)) =>
            /\ crec.err = ""
            /\ ~crec.printed
            /\ crec.record.values[3] = PyStr(<<65, 66>>)
            /\ cpc = "encoded" =>
                  enc.processedData[3] = IntToBytes(2, 2, endian) \o <<65, 66>>
    /\ (/\ cpc # "read"
        /\ crec.record.typ = 50
        /\ crec.record.buffer = GdrBitsPayload(endian)) =>
            /\ crec.err = ""
            /\ ~crec.printed
            /\ Len(crec.record.values) = 3
            /\ crec.record.values[2] = PyTuple(<<255, 1>>)
            /\ cpc = "encoded" =>
                  enc.processedData[2] = <<12>> \o IntToBytes(16, 2, endian) \o <<255, 1>>

\* OPT_FLAG of the PTR or MPR under the codec
OptFlagOf(record) == record.values[IndexOf(record.fieldMap, "OPT_FLAG") + 1].i

\* one of the two bits is set in the byte
EitherBit(byte, a, b) == BitAnd(byte, 2 ^ a + 2 ^ b) # 0

\* C27: for a PTR and an MPR, missingFlag gives LO_LIMIT and LLM_SCAL
\* missing exactly when bit 4 or bit 6 of OPT_FLAG is set, HI_LIMIT and
\* HLM_SCAL exactly when bit 5 or bit 7 is set.
C27_LimitFlags ==
    cpc = "flagged" =>
        \A k \in 1..Len(crec.record.fieldMap) :
            /\ crec.record.fieldMap[k].name \in {"LO_LIMIT", "LLM_SCAL"} =>
                  (flagged[k] <=> EitherBit(OptFlagOf(crec.record), 4, 6))
            /\ crec.record.fieldMap[k].name \in {"HI_LIMIT", "HLM_SCAL"} =>
                  (flagged[k] <=> EitherBit(OptFlagOf(crec.record), 5, 7))

\* C28: whenever the Parser has read a whole record and decoded it (the
\* record was sent, or its decoding raised), the input is at the record's
\* start plus 4 plus its declared length: decoding read nothing from the
\* input.
C28_Framing ==
    \A i \in 1..Len(trace[1]) :
        trace[1][i].act \in {"send", "raise"} =>
            trace[1][i].after = trace[1][i].at + 4 + trace[1][i].len

\* the bytes encoded for field k differ from the slice of the buffer that
\* decodeValues recorded for it, the two bytes of the bit count of a Dn
\* left out of both
FieldDiffers(k) ==
    \E j \in 1..Len(crec.record.original) :
        /\ crec.record.original[j].name = crec.record.fieldMap[k].name
        /\ Let(IF crec.record.fieldMap[k].format = "Dn" THEN 2 ELSE 0, LAMBDA skip :
               Slice(enc.processedData[k], skip, Len(enc.processedData[k]))
                 # Slice(crec.record.buffer, crec.record.original[j].off + skip,
                         crec.record.original[j].len - skip))

PrrCount(site, P(_)) ==
    Cardinality({ i \in 1..Len(prrs) : prrs[i].SITE_NUM = site /\ P(prrs[i].PART_FLG) })

\* C22: for every site, the part count is the number of its PRRs, the good
\* count the number of those with PART_FLG bit 3 clear, the abort count the
\* number of those with PART_FLG bit 2 set.
C22_PartCounts ==
    \A site \in DOMAIN pcSynth :
        /\ pcSynth[site][1] = PrrCount(site, LAMBDA f : TRUE)
        /\ pcSynth[site][2] = PrrCount(site, LAMBDA f : BitAnd(f, 8) = 0)
        /\ pcSynth[site][3] = PrrCount(site, LAMBDA f : BitAnd(f, 4) # 0)

\* the value the binary record has for the field of that name
BinaryValue(record, name) == record.values[IndexOf(record.fieldMap, name) + 1]

\* C21: the line AtdfWriter writes from a decoded binary record, parsed by
\* the ATDF parser, is sent on as a record of the same kind, and every field
\* the ATDF schema names that the binary record has too has the binary
\* record's value.
C21_TextRoundTrip ==
    cpc = "parsed" =>
        /\ atdf.err = ""
        /\ atdf.sent
        /\ atdf.kind = crec.record.name
        /\ \A r \in A4records :
              r.name = atdf.kind =>
                  \A k \in 1..Len(r.fieldTuple) :
                      (\E j \in 1..Len(crec.record.fieldMap) :
                          crec.record.fieldMap[j].name = r.fieldTuple[k][1])
                          => atdf.fields[k] = BinaryValue(crec.record, r.fieldTuple[k][1])

====
